---- MODULE Spec2Model ----
(***************************************************************************)
(* A model of the cloud-resource fetchers of teleport:                     *)
(*   - the S3 bucket fetcher of the access-graph AWS sync                  *)
(*     (lib/srv/discovery/fetchers/aws-sync/s3.go), and                    *)
(*   - the Redshift Serverless database fetcher                            *)
(*     (lib/srv/discovery/fetchers/db/aws_redshift_serverless.go).         *)
(*                                                                         *)
(* Go pointers that may be nil are modelled as records, with Nil the nil   *)
(* pointer; Go strings as strings with "" the zero value; Go slices as     *)
(* sequences with <<>> both the nil and the empty slice.                   *)
(***************************************************************************)
EXTENDS Naturals, Sequences, FiniteSets

VARIABLES
    \* ---- one call of mergeS3Protos
    mExisting, mNew, mFailedReqs, mResult, mCalled,
    mHeap,          \* the objects *AWSS3BucketV1 point to, by address
    mResultPtr,     \* the pointer mergeS3Protos returned
    \* ---- one call of getS3BucketDetails
    dBucket, dResp, dResult, dCalled,
    \* ---- the S3 fetcher, over poll cycles
    lastResult,     \* a.lastResult.S3Buckets: the result set of the previous poll
    cycle,          \* number of the poll in progress; also the clock of timestamppb.Now()
    pc,             \* where fetchS3Buckets is
    existing,       \* fetchS3Buckets' local `existing`
    buckets,        \* the buckets ListBuckets returned
    nextIdx,        \* index of the next bucket of the range loop
    task,           \* the goroutines of the errgroup, one per bucket
    s3s, errs,      \* the accumulators guarded by mu
    mu,             \* holder of the mutex: a task index, 0 when free
    ret,            \* what fetchS3Buckets returned last
    cancelled,      \* whether the context of the poll is cancelled
    result,         \* result.S3Buckets of the poll in progress
    collected,      \* the errors handed to collectErr in the poll in progress
    pollRet,        \* what the function of pollAWSS3Buckets returned
    known,          \* history: per bucket and field, the value last fetched without failure
    \* ---- one run of a paginated collector of the Redshift Serverless fetcher
    pgSource, pgResult, pgCalled,
    \* ---- one call of GetDatabases of the Redshift Serverless plugin
    rssIn, rssRet, rssCalled,
    \* ---- the Modal component of the web UI
    props,          \* this.props
    mounted,        \* this.mounted
    listening,      \* whether handleDocumentKeyDown is a keydown listener of the document
    calls,          \* the callbacks of the props the last event invoked, in order
    event           \* the last event delivered to the component

mergeVars   == <<mExisting, mNew, mFailedReqs, mResult, mCalled, mHeap, mResultPtr>>
detailsVars == <<dBucket, dResp, dResult, dCalled>>
cycleVars   == <<lastResult, cycle, pc, existing, buckets, nextIdx, task, s3s, errs, mu, ret,
                 cancelled, result, collected, pollRet, known>>
pageVars    == <<pgSource, pgResult, pgCalled>>
rssVars     == <<rssIn, rssRet, rssCalled>>
modalVars   == <<props, mounted, listening, calls, event>>
vars        == <<mergeVars, detailsVars, cycleVars, pageVars, rssVars, modalVars>>

Nil == [nil |-> TRUE]

-----------------------------------------------------------------------------
(* Data of the S3 fetcher *)

\* a.AccountID
AccountID == "123456789012"

\* names of the buckets of the account, in the order they are created
AllBucketNames == <<"b1", "b2", "b3", "b4", "b5", "b6", "b7", "b8">>

\* upper bound of the clock values used for LastSyncTime in a mergeS3Protos call
MaxSyncTime == 2

\* type failedRequests struct
failedRequests ==
    [policyFailed : BOOLEAN, failedPolicyStatus : BOOLEAN, failedAcls : BOOLEAN,
     failedTags : BOOLEAN, headFailed : BOOLEAN]

\* the zero value of failedRequests (var failedReqs failedRequests)
NoFailedRequests ==
    [policyFailed |-> FALSE, failedPolicyStatus |-> FALSE, failedAcls |-> FALSE,
     failedTags |-> FALSE, headFailed |-> FALSE]

\* the s3.Grant the provider returns for a bucket with an ACL
Grant1 ==
    [Grantee |-> [ID |-> "u1", DisplayName |-> "owner", Type |-> "CanonicalUser",
                  URI |-> "", EmailAddress |-> ""],
     Permission |-> "FULL_CONTROL"]

\* the s3.Tag the provider returns for a tagged bucket
Tag1 == [Key |-> "env", Value |-> "prod"]

\* strPtrToWrapper: *string -> *wrapperspb.StringValue
strPtrToWrapper(v) == [Value |-> v]

\* awsACLsToProtoACLs
awsACLsToProtoACLs(grants) ==
    [i \in 1..Len(grants) |->
        [Grantee |-> [Id           |-> grants[i].Grantee.ID,
                      DisplayName  |-> grants[i].Grantee.DisplayName,
                      Type         |-> grants[i].Grantee.Type,
                      Uri          |-> grants[i].Grantee.URI,
                      EmailAddress |-> grants[i].Grantee.EmailAddress],
         Permission |-> grants[i].Permission]]

\* awsS3Bucket: the snapshot built from what was fetched; a nil argument leaves
\* the field at its zero value
awsS3Bucket(name, policy, policyStatus, acls, tags, accountID, now) ==
    [Name           |-> name,
     AccountId      |-> accountID,
     LastSyncTime   |-> now,
     PolicyDocument |-> IF policy # Nil THEN policy.Policy ELSE "",
     IsPublic       |-> IF policyStatus # Nil /\ policyStatus.PolicyStatus # Nil
                        THEN policyStatus.PolicyStatus.IsPublic ELSE FALSE,
     Acls           |-> IF acls # Nil THEN awsACLsToProtoACLs(acls.Grants) ELSE <<>>,
     Tags           |-> IF tags # Nil
                        THEN [i \in 1..Len(tags.TagSet) |->
                                [Key   |-> tags.TagSet[i].Key,
                                 Value |-> strPtrToWrapper(tags.TagSet[i].Value)]]
                        ELSE <<>>]

\* a mergeS3Protos that clones `existing` and takes from `new` the fields whose
\* request did not fail
mergeS3Protos_cloneExisting(existingB, newB, failedReqs) ==
    IF existingB = Nil THEN newB
    ELSE IF newB = Nil THEN existingB
    ELSE [existingB EXCEPT
            !.PolicyDocument = IF failedReqs.policyFailed THEN @ ELSE newB.PolicyDocument,
            !.IsPublic       = IF failedReqs.failedPolicyStatus THEN @ ELSE newB.IsPublic,
            !.Acls           = IF failedReqs.failedAcls THEN @ ELSE newB.Acls,
            !.Tags           = IF failedReqs.failedTags THEN @ ELSE newB.Tags]

\* a mergeS3Protos that tests the wrong flag for the policy document
mergeS3Protos_wrongFlag(existingB, newB, failedReqs) ==
    IF existingB = Nil THEN newB
    ELSE IF newB = Nil THEN existingB
    ELSE [newB EXCEPT
            !.PolicyDocument = IF failedReqs.failedPolicyStatus THEN existingB.PolicyDocument ELSE @,
            !.IsPublic       = IF failedReqs.failedPolicyStatus THEN existingB.IsPublic ELSE @,
            !.Acls           = IF failedReqs.failedAcls THEN existingB.Acls ELSE @,
            !.Tags           = IF failedReqs.failedTags THEN existingB.Tags ELSE @]

\* a mergeS3Protos without the nil checks' early returns in the right order:
\* a missing prior snapshot yields no snapshot
mergeS3Protos_nilSwap(existingB, newB, failedReqs) ==
    IF existingB = Nil THEN existingB
    ELSE IF newB = Nil THEN newB
    ELSE [newB EXCEPT
            !.PolicyDocument = IF failedReqs.policyFailed THEN existingB.PolicyDocument ELSE @,
            !.IsPublic       = IF failedReqs.failedPolicyStatus THEN existingB.IsPublic ELSE @,
            !.Acls           = IF failedReqs.failedAcls THEN existingB.Acls ELSE @,
            !.Tags           = IF failedReqs.failedTags THEN existingB.Tags ELSE @]

\* a mergeS3Protos that lacks the last test, that of failedTags
mergeS3Protos_noTags(existingB, newB, failedReqs) ==
    IF existingB = Nil THEN newB
    ELSE IF newB = Nil THEN existingB
    ELSE [newB EXCEPT
            !.PolicyDocument = IF failedReqs.policyFailed THEN existingB.PolicyDocument ELSE @,
            !.IsPublic       = IF failedReqs.failedPolicyStatus THEN existingB.IsPublic ELSE @,
            !.Acls           = IF failedReqs.failedAcls THEN existingB.Acls ELSE @]

\* mergeS3Protos: the clone of `new`, with the fields whose request failed
\* taken from `existing`
mergeS3Protos(existingB, newB, failedReqs) ==
    IF existingB = Nil THEN newB
    ELSE IF newB = Nil THEN existingB
    ELSE [newB EXCEPT
            !.PolicyDocument = IF failedReqs.policyFailed THEN existingB.PolicyDocument ELSE @,
            !.IsPublic       = IF failedReqs.failedPolicyStatus THEN existingB.IsPublic ELSE @,
            !.Acls           = IF failedReqs.failedAcls THEN existingB.Acls ELSE @,
            !.Tags           = IF failedReqs.failedTags THEN existingB.Tags ELSE @]

\* Pointers to snapshots: the nil pointer, the address of `existing`, the
\* address of `new`, and the address the next allocation returns
NilPtr      == 0
ExistingPtr == 1
NewPtr      == 2
FreePtr     == 3

\* a merge that writes into `new` instead of a clone of it
protoClone_inPlace(heap, ptr) == [heap |-> heap, ptr |-> ptr]

\* proto.Clone(new): a copy of the object at a new address
protoClone(heap, ptr) == [heap |-> [heap EXCEPT ![FreePtr] = heap[ptr]], ptr |-> FreePtr]

\* mergeS3Protos on pointers: the heap after the call and the pointer returned;
\* the assignments of the fields go to the clone
mergeS3ProtosAt(heap, existingPtr, newPtr, failedReqs) ==
    IF existingPtr = NilPtr THEN [heap |-> heap, ptr |-> newPtr]
    ELSE IF newPtr = NilPtr THEN [heap |-> heap, ptr |-> existingPtr]
    ELSE LET clone == protoClone(heap, newPtr)
         IN [heap |-> [clone.heap EXCEPT
                         ![clone.ptr] = mergeS3Protos(clone.heap[existingPtr],
                                                      clone.heap[clone.ptr], failedReqs)],
             ptr  |-> clone.ptr]

-----------------------------------------------------------------------------
(* What the S3 API answers *)

\* an error of the SDK: awsErr says whether errors.As finds an awserr.Error in
\* its chain, Code is that error's Code(); an error that is no awserr.Error
\* (a cancelled context, a broken connection) has no code
S3Errors ==
    [awsErr : {TRUE}, Code : {"NoSuchBucketPolicy", "NoSuchTagSet", "AccessDenied"}]
    \cup {[awsErr |-> FALSE, Code |-> ""]}

\* the outputs of the four requests
PolicyOutputs       == {[Policy |-> "p1"], [Policy |-> "p2"]}
PolicyStatusOutputs == {[PolicyStatus |-> Nil]} \cup
                       {[PolicyStatus |-> [IsPublic |-> b]] : b \in BOOLEAN}
AclOutputs          == {[Grants |-> <<>>], [Grants |-> <<Grant1>>]}
TaggingOutputs      == {[TagSet |-> <<>>], [TagSet |-> <<Tag1>>]}

\* the answers to one request: an output and no error, or an error and the empty output
Answers(outputs, empty) ==
    {[out |-> o, err |-> Nil] : o \in outputs} \cup
    {[out |-> empty, err |-> e] : e \in S3Errors}

\* the answers of the provider to the requests made for one bucket
S3Responses ==
    [region       : {[err |-> Nil], [err |-> [awsErr |-> TRUE, Code |-> "AccessDenied"]]},
     client       : {[err |-> Nil], [err |-> [awsErr |-> FALSE, Code |-> ""]]},
     policy       : Answers(PolicyOutputs, [Policy |-> ""]),
     policyStatus : Answers(PolicyStatusOutputs, [PolicyStatus |-> Nil]),
     acls         : Answers(AclOutputs, [Grants |-> <<>>]),
     tags         : Answers(TaggingOutputs, [TagSet |-> <<>>])]

\* trace.Wrap(err, "failed to ...", bucket): the error with its context
Wrap(err, op, bucket) == [op |-> op, bucket |-> bucket, cause |-> err]

\* trace.NewAggregate: nil when there is no error to aggregate
NewAggregate(es) == IF es = <<>> THEN Nil ELSE [errors |-> es]

\* an isS3BucketPolicyNotFound that takes every "no such" code for a missing policy
isS3BucketPolicyNotFound_anyNoSuch(err) ==
    err.awsErr /\ err.Code \in {"NoSuchBucketPolicy", "NoSuchTagSet"}

isS3BucketPolicyNotFound(err) == err.awsErr /\ err.Code = "NoSuchBucketPolicy"

\* an isS3BucketNoTagSet that takes every error of the service for a missing tag set
isS3BucketNoTagSet_anyAwsErr(err) == err.awsErr

isS3BucketNoTagSet(err) == err.awsErr /\ err.Code = "NoSuchTagSet"

\* a getS3BucketDetails that leaves the tags out of the flags it sets when
\* the client cannot be created
getS3BucketDetails_tagsNotFlagged(bucket, resp) ==
    IF resp.client.err # Nil
    THEN [details    |-> [policy |-> Nil, policyStatus |-> Nil, acls |-> Nil, tags |-> Nil],
          failedReqs |-> [headFailed |-> TRUE, policyFailed |-> TRUE,
                          failedPolicyStatus |-> TRUE, failedAcls |-> TRUE,
                          failedTags |-> FALSE],
          errs       |-> <<Wrap(resp.client.err, "create s3 client", bucket)>>,
          calls      |-> <<>>]
    ELSE [details    |-> [policy       |-> resp.policy.out,
                          policyStatus |-> resp.policyStatus.out,
                          acls         |-> resp.acls.out,
                          tags         |-> resp.tags.out],
          failedReqs |-> NoFailedRequests,
          errs       |-> <<>>,
          calls      |-> <<"GetBucketPolicy", "GetBucketPolicyStatus",
                           "GetBucketAcl", "GetBucketTagging">>]

\* getS3BucketDetails: four requests, each failing on its own
getS3BucketDetails(bucket, resp) ==
    IF resp.client.err # Nil
    THEN [details    |-> [policy |-> Nil, policyStatus |-> Nil, acls |-> Nil, tags |-> Nil],
          failedReqs |-> [headFailed |-> TRUE, policyFailed |-> TRUE,
                          failedPolicyStatus |-> TRUE, failedAcls |-> TRUE,
                          failedTags |-> TRUE],
          errs       |-> <<Wrap(resp.client.err, "create s3 client", bucket)>>,
          calls      |-> <<>>]
    ELSE
      LET policyFailed == resp.policy.err # Nil /\ ~isS3BucketPolicyNotFound(resp.policy.err)
          statusFailed == resp.policyStatus.err # Nil
                          /\ ~isS3BucketPolicyNotFound(resp.policyStatus.err)
          aclsFailed   == resp.acls.err # Nil
          tagsFailed   == resp.tags.err # Nil /\ ~isS3BucketNoTagSet(resp.tags.err)
      IN [details    |-> [policy       |-> resp.policy.out,
                          policyStatus |-> resp.policyStatus.out,
                          acls         |-> resp.acls.out,
                          tags         |-> resp.tags.out],
          failedReqs |-> [NoFailedRequests EXCEPT
                            !.policyFailed       = policyFailed,
                            !.failedPolicyStatus = statusFailed,
                            !.failedAcls         = aclsFailed,
                            !.failedTags         = tagsFailed],
          errs       |-> (IF policyFailed
                          THEN <<Wrap(resp.policy.err, "inline policy", bucket)>> ELSE <<>>)
                         \o (IF statusFailed
                          THEN <<Wrap(resp.policyStatus.err, "policy status", bucket)>> ELSE <<>>)
                         \o (IF aclsFailed
                          THEN <<Wrap(resp.acls.err, "acls policies", bucket)>> ELSE <<>>)
                         \o (IF tagsFailed
                          THEN <<Wrap(resp.tags.err, "tags", bucket)>> ELSE <<>>),
          calls      |-> <<"GetBucketPolicy", "GetBucketPolicyStatus",
                           "GetBucketAcl", "GetBucketTagging">>]

-----------------------------------------------------------------------------
(* One call of mergeS3Protos, on any snapshots *)

\* the snapshots awsS3Bucket and mergeS3Protos can produce
S3Snapshots ==
    [Name           : {AllBucketNames[1], AllBucketNames[2]},
     AccountId      : {AccountID},
     LastSyncTime   : 1..MaxSyncTime,
     PolicyDocument : {""} \cup {o.Policy : o \in PolicyOutputs},
     IsPublic       : BOOLEAN,
     Acls           : {awsACLsToProtoACLs(o.Grants) : o \in AclOutputs},
     Tags           : {awsS3Bucket("", Nil, Nil, Nil, o, "", 0).Tags : o \in TaggingOutputs}]

MergeIdle ==
    /\ mExisting = Nil /\ mNew = Nil /\ mFailedReqs = NoFailedRequests
    /\ mResult = Nil /\ mCalled = FALSE
    /\ mHeap = <<Nil, Nil, Nil>> /\ mResultPtr = NilPtr

\* the arguments of a call: a prior snapshot is one of the same bucket, built earlier
InitMerge ==
    /\ mExisting \in S3Snapshots \cup {Nil}
    /\ mNew \in S3Snapshots \cup {Nil}
    /\ (mExisting # Nil /\ mNew # Nil) =>
          (mExisting.Name = mNew.Name /\ mExisting.LastSyncTime < mNew.LastSyncTime)
    /\ mFailedReqs \in failedRequests
    /\ mResult = Nil
    /\ mCalled = FALSE
    /\ mHeap = <<mExisting, mNew, Nil>>
    /\ mResultPtr = NilPtr

MergeCall ==
    /\ ~mCalled
    /\ mResult' = mergeS3Protos(mExisting, mNew, mFailedReqs)
    /\ LET r == mergeS3ProtosAt(mHeap,
                                IF mExisting = Nil THEN NilPtr ELSE ExistingPtr,
                                IF mNew = Nil THEN NilPtr ELSE NewPtr, mFailedReqs)
       IN mHeap' = r.heap /\ mResultPtr' = r.ptr
    /\ mCalled' = TRUE
    /\ UNCHANGED <<mExisting, mNew, mFailedReqs, detailsVars, cycleVars, pageVars, rssVars, modalVars>>

-----------------------------------------------------------------------------
(* One call of getS3BucketDetails, on any answers of the provider *)

DetailsIdle ==
    /\ dBucket = "" /\ dResp = Nil /\ dResult = Nil /\ dCalled = FALSE

InitDetails ==
    /\ dBucket = AllBucketNames[1]
    /\ dResp \in {r \in S3Responses : r.region.err = Nil}
    /\ dResult = Nil
    /\ dCalled = FALSE

DetailsCall ==
    /\ ~dCalled
    /\ dResult' = getS3BucketDetails(dBucket, dResp)
    /\ dCalled' = TRUE
    /\ UNCHANGED <<dBucket, dResp, mergeVars, cycleVars, pageVars, rssVars, modalVars>>


-----------------------------------------------------------------------------
(* The S3 fetcher: fetchS3Buckets, one poll cycle after the other *)

\* eG.SetLimit(5)
Limit == 5

\* number of poll cycles of a run
MaxCycles == 2

\* number of poll cycles of a run that follows one bucket over the polls
MaxPolls == 4

\* number of buckets of the account when the limit of the errgroup is exercised
NumBuckets == 6

\* answers of the provider for one bucket in a poll cycle
RespAllOk ==
    [region       |-> [err |-> Nil],
     client       |-> [err |-> Nil],
     policy       |-> [out |-> [Policy |-> "p1"], err |-> Nil],
     policyStatus |-> [out |-> [PolicyStatus |-> [IsPublic |-> TRUE]], err |-> Nil],
     acls         |-> [out |-> [Grants |-> <<Grant1>>], err |-> Nil],
     tags         |-> [out |-> [TagSet |-> <<Tag1>>], err |-> Nil]]

Denied == [awsErr |-> TRUE, Code |-> "AccessDenied"]

RespRegionFail == [RespAllOk EXCEPT !.region = [err |-> Denied]]

RespClientFail == [RespAllOk EXCEPT !.client = [err |-> [awsErr |-> FALSE, Code |-> ""]]]

RespTagsDenied == [RespAllOk EXCEPT !.tags = [out |-> [TagSet |-> <<>>], err |-> Denied]]

RespAllDenied ==
    [RespAllOk EXCEPT
        !.policy       = [out |-> [Policy |-> ""], err |-> Denied],
        !.policyStatus = [out |-> [PolicyStatus |-> Nil], err |-> Denied],
        !.acls         = [out |-> [Grants |-> <<>>], err |-> Denied],
        !.tags         = [out |-> [TagSet |-> <<>>], err |-> Denied]]

RespAllSoft ==
    [RespAllOk EXCEPT
        !.policy       = [out |-> [Policy |-> ""],
                          err |-> [awsErr |-> TRUE, Code |-> "NoSuchBucketPolicy"]],
        !.policyStatus = [out |-> [PolicyStatus |-> Nil],
                          err |-> [awsErr |-> TRUE, Code |-> "NoSuchBucketPolicy"]],
        !.acls         = [out |-> [Grants |-> <<>>], err |-> Nil],
        !.tags         = [out |-> [TagSet |-> <<>>],
                          err |-> [awsErr |-> TRUE, Code |-> "NoSuchTagSet"]]]

\* a bucket whose policy status says it is not public
RespNotPublic ==
    [RespAllOk EXCEPT
        !.policyStatus = [out |-> [PolicyStatus |-> [IsPublic |-> FALSE]], err |-> Nil]]

CycleResponses ==
    {RespAllOk, RespRegionFail, RespClientFail, RespTagsDenied, RespAllDenied, RespAllSoft,
     RespNotPublic}

\* the error of a request made with a cancelled context
Canceled == [awsErr |-> TRUE, Code |-> "RequestCanceled"]

\* the context is cancelled before the first request of the task
RespRegionCanceled == [RespAllOk EXCEPT !.region = [err |-> Canceled]]

\* the context is cancelled between the requests of the task
RespCanceledMid ==
    [RespAllOk EXCEPT
        !.acls = [out |-> [Grants |-> <<>>], err |-> Canceled],
        !.tags = [out |-> [TagSet |-> <<>>], err |-> Canceled]]

CancelledResponses == {RespRegionCanceled, RespCanceledMid}

\* what ListBuckets may return for an account that owns the first two buckets
BucketListings ==
    {<<>>, <<AllBucketNames[1]>>, <<AllBucketNames[2]>>,
     <<AllBucketNames[1], AllBucketNames[2]>>}

\* what ListBuckets may return for an account with at most the first bucket
HistoryListings == {<<>>, <<AllBucketNames[1]>>}

\* a goroutine not yet started by eG.Go
IdleTask ==
    [pc |-> "idle", resp |-> Nil, failedReqs |-> NoFailedRequests, s3 |-> Nil, err |-> Nil,
     calls |-> <<>>]

\* a lookup that matches the account only: the first record of the list
sliceFilterPickFirst_anyName(list, name, accountID) ==
    LET hits == {i \in 1..Len(list) : list[i].AccountId = accountID}
    IN IF hits = {} THEN Nil
       ELSE list[CHOOSE i \in hits : \A j \in hits : i <= j]

\* sliceFilterPickFirst(existing.S3Buckets, name and account match): the first
\* match, nil without one
sliceFilterPickFirst(list, name, accountID) ==
    LET hits == {i \in 1..Len(list) : list[i].Name = name /\ list[i].AccountId = accountID}
    IN IF hits = {} THEN Nil
       ELSE list[CHOOSE i \in hits : \A j \in hits : i <= j]

\* tasks holding a token of the errgroup's semaphore
InFlight ==
    {i \in 1..Len(task) : task[i].pc \in {"running", "interrupted", "collect", "locked"}}

\* history: nothing is known of a bucket's fields
NothingKnown == [PolicyDocument |-> <<>>, IsPublic |-> <<>>, Acls |-> <<>>, Tags |-> <<>>]

\* history: the fields of a bucket whose request was answered, by a value or by
\* a "no such policy / tag set", in the answers `resp`
Answered(resp) ==
    LET reached == resp.region.err = Nil /\ resp.client.err = Nil
        soft(e, code) == e # Nil /\ e.awsErr /\ e.Code = code
    IN [PolicyDocument |-> reached /\ (resp.policy.err = Nil
                                       \/ soft(resp.policy.err, "NoSuchBucketPolicy")),
        IsPublic       |-> reached /\ (resp.policyStatus.err = Nil
                                       \/ soft(resp.policyStatus.err, "NoSuchBucketPolicy")),
        Acls           |-> reached /\ resp.acls.err = Nil,
        Tags           |-> reached /\ (resp.tags.err = Nil
                                       \/ soft(resp.tags.err, "NoSuchTagSet"))]

\* history: what is known of a bucket after the answers `resp` in poll `now`
Learn(h, name, resp, now) ==
    LET a     == Answered(resp)
        fresh == awsS3Bucket(name, resp.policy.out, resp.policyStatus.out, resp.acls.out,
                             resp.tags.out, AccountID, now)
    IN [PolicyDocument |-> IF a.PolicyDocument
                           THEN <<[v |-> fresh.PolicyDocument, at |-> now]>>
                           ELSE h.PolicyDocument,
        IsPublic       |-> IF a.IsPublic THEN <<[v |-> fresh.IsPublic, at |-> now]>>
                           ELSE h.IsPublic,
        Acls           |-> IF a.Acls THEN <<[v |-> fresh.Acls, at |-> now]>> ELSE h.Acls,
        Tags           |-> IF a.Tags THEN <<[v |-> fresh.Tags, at |-> now]>> ELSE h.Tags]

\* the names of a sequence of buckets
NamesOf(bs) == {bs[i] : i \in 1..Len(bs)}

CycleInit ==
    /\ lastResult = <<>>
    /\ cycle = 1
    /\ pc = "idle"
    /\ existing = <<>>
    /\ buckets = <<>>
    /\ nextIdx = 1
    /\ task = <<>>
    /\ s3s = <<>>
    /\ errs = <<>>
    /\ mu = 0
    /\ ret = Nil
    /\ cancelled = FALSE
    /\ result = <<>>
    /\ collected = <<>>
    /\ pollRet = Nil
    /\ known = [b \in NamesOf(AllBucketNames) |-> NothingKnown]

\* a return of nil beside the error of the listing
listFailed_nil(existingList, err) ==
    [S3Buckets |-> <<>>, err |-> err, listed |-> FALSE]

\* return existing.S3Buckets, trace.Wrap(err)
listFailed(existingList, err) ==
    [S3Buckets |-> existingList, err |-> err, listed |-> FALSE]

\* a result list that starts from the retained one
initialS3s_fromExisting == lastResult

\* var s3s []*accessgraphv1alpha.AWSS3BucketV1
initialS3s == <<>>

\* The poll begins with a context that is not cancelled. fetchS3Buckets up to
\* the range loop: `existing` is captured, then listS3Buckets creates a client
\* and lists the buckets; either may fail, also by a cancellation that
\* arrives meanwhile
FetchStartWith(listings) ==
    /\ pc = "idle"
    /\ existing' = lastResult
    /\ s3s' = initialS3s
    /\ errs' = <<>>
    /\ nextIdx' = 1
    /\ \/ \E op \in {"GetAWSS3Client", "ListBuckets"} :
            /\ ret' = listFailed(lastResult, Wrap(Denied, op, ""))
            /\ cancelled' = FALSE
            /\ pc' = "returned"
            /\ buckets' = <<>>
            /\ task' = <<>>
            /\ known' = known
       \/ /\ ret' = listFailed(lastResult, Wrap(Canceled, "ListBuckets", ""))
          /\ cancelled' = TRUE
          /\ pc' = "returned"
          /\ buckets' = <<>>
          /\ task' = <<>>
          /\ known' = known
       \/ \E bs \in listings :
            /\ buckets' = bs
            /\ task' = [i \in 1..Len(bs) |-> IdleTask]
            /\ cancelled' = FALSE
            /\ pc' = "dispatch"
            /\ ret' = Nil
            /\ known' = [b \in DOMAIN known |->
                            IF b \in NamesOf(bs) THEN known[b] ELSE NothingKnown]
    /\ UNCHANGED <<lastResult, cycle, mu, result, collected, pollRet,
                   mergeVars, detailsVars, pageVars, rssVars, modalVars>>

\* the result sets another writer may put in place of the retained one: none
\* of its records, or its records without their details
Replacements(prior) ==
    {<<>>,
     [k \in 1..Len(prior) |->
        awsS3Bucket(prior[k].Name, Nil, Nil, Nil, Nil, prior[k].AccountId,
                    prior[k].LastSyncTime)]}

\* the fetcher's retained result set is replaced by another one while tasks of
\* the cycle are in their requests: a.lastResult is made to point to it
ReplaceRetained ==
    /\ pc = "dispatch"
    /\ \E i \in 1..Len(task) : task[i].pc = "running"
    /\ \E r \in Replacements(lastResult) :
        /\ r # lastResult
        /\ lastResult' = r
    /\ UNCHANGED <<cycle, pc, existing, buckets, nextIdx, task, s3s, errs, mu, ret,
                   cancelled, result, collected, pollRet, known,
                   mergeVars, detailsVars, pageVars, rssVars, modalVars>>

\* the context of the poll is cancelled while the tasks are dispatched and
\* run; a task that is in its requests is interrupted
Cancel ==
    /\ pc = "dispatch"
    /\ ~cancelled
    /\ cancelled' = TRUE
    /\ task' = [i \in 1..Len(task) |->
                    IF task[i].pc = "running" THEN [task[i] EXCEPT !.pc = "interrupted"]
                    ELSE task[i]]
    /\ UNCHANGED <<lastResult, cycle, pc, existing, buckets, nextIdx, s3s, errs, mu, ret,
                   result, collected, pollRet, known,
                   mergeVars, detailsVars, pageVars, rssVars, modalVars>>

FetchStart == cycle <= MaxCycles /\ FetchStartWith(BucketListings)

FetchStartMany ==
    cycle <= MaxCycles /\ FetchStartWith({SubSeq(AllBucketNames, 1, NumBuckets)})

\* the polls of an account whose first bucket comes, stays and goes
FetchStartOne == cycle <= MaxPolls /\ FetchStartWith(HistoryListings)

\* the polls of an account that keeps its first two buckets
FetchStartBoth == cycle <= MaxCycles /\ FetchStartWith({<<"b1", "b2">>})

\* an eG.Go that does not wait for a token of the semaphore
GoEnabled_noLimit == TRUE

\* eG.Go blocks while Limit goroutines of the group are active
GoEnabled == Cardinality(InFlight) < Limit

\* one iteration of the range loop: eG.Go starts the goroutine of the next
\* bucket; neither the loop nor eG.Go looks at the context
Go ==
    /\ pc = "dispatch"
    /\ nextIdx <= Len(buckets)
    /\ GoEnabled
    /\ task' = [task EXCEPT ![nextIdx].pc = "running"]
    /\ nextIdx' = nextIdx + 1
    /\ UNCHANGED <<lastResult, cycle, pc, existing, buckets, s3s, errs, mu, ret,
                   cancelled, result, collected, pollRet, known,
                   mergeVars, detailsVars, pageVars, rssVars, modalVars>>

\* a task that leaves the tags out of the flags it sets when the region lookup fails
regionFailedReqs_noTags ==
    [NoFailedRequests EXCEPT
        !.policyFailed = TRUE, !.failedPolicyStatus = TRUE, !.failedAcls = TRUE]

\* the flags the goroutine sets when getBucketRegion fails
regionFailedReqs ==
    [NoFailedRequests EXCEPT
        !.policyFailed = TRUE, !.failedPolicyStatus = TRUE,
        !.failedAcls = TRUE, !.failedTags = TRUE]

\* what the goroutine of a bucket hands to collect, given the provider's answers
TaskOutcome(name, resp, prior, now) ==
    LET existingBucket == sliceFilterPickFirst(prior, name, AccountID)
    IN IF resp.region.err # Nil
       THEN [failedReqs |-> regionFailedReqs,
             s3    |-> mergeS3Protos(existingBucket,
                                     awsS3Bucket(name, Nil, Nil, Nil, Nil, AccountID, now),
                                     regionFailedReqs),
             err   |-> NewAggregate(<<Wrap(resp.region.err, "region", name)>>),
             calls |-> <<>>]
       ELSE LET d == getS3BucketDetails(name, resp)
            IN [failedReqs |-> d.failedReqs,
                s3    |-> mergeS3Protos(existingBucket,
                                        awsS3Bucket(name, d.details.policy,
                                                    d.details.policyStatus, d.details.acls,
                                                    d.details.tags, AccountID, now),
                                        d.failedReqs),
                err   |-> NewAggregate(d.errs),
                calls |-> d.calls]

\* a goroutine that reads the fetcher's retained result set when it runs
existingS3Buckets_retained == lastResult

\* existing.S3Buckets as the goroutines read it: the local of fetchS3Buckets
existingS3Buckets == existing

\* the body of the goroutine up to the call of collect
TaskRunWith(i, responses) ==
    /\ task[i].pc \in {"running", "interrupted"}
    /\ \E resp \in responses :
         LET o == TaskOutcome(buckets[i], resp, existingS3Buckets, cycle)
         IN /\ task' = [task EXCEPT ![i] = [pc |-> "collect", resp |-> resp,
                                            failedReqs |-> o.failedReqs,
                                            s3 |-> o.s3, err |-> o.err,
                                            calls |-> o.calls]]
            /\ known' = [known EXCEPT
                            ![buckets[i]] = Learn(known[buckets[i]], buckets[i], resp, cycle)]
    /\ UNCHANGED <<lastResult, cycle, pc, existing, buckets, nextIdx, s3s, errs, mu, ret,
                   cancelled, result, collected, pollRet,
                   mergeVars, detailsVars, pageVars, rssVars, modalVars>>

\* the answers a task may get: any, while the context is live; a task started
\* after the cancellation fails at its first request; a task interrupted by
\* the cancellation had none, some or all of its requests answered before
ResponsesFor(i) ==
    IF task[i].pc = "interrupted" THEN CycleResponses \cup CancelledResponses
    ELSE IF cancelled THEN {RespRegionCanceled}
    ELSE CycleResponses

TaskRun == \E i \in 1..Len(task) : TaskRunWith(i, ResponsesFor(i))

TaskRunOk == \E i \in 1..Len(task) : TaskRunWith(i, {RespAllOk})

\* a collect that does not wait for the mutex
TaskLock_noMutex ==
    \E i \in 1..Len(task) :
        /\ task[i].pc = "collect"
        /\ mu' = i
        /\ task' = [task EXCEPT ![i].pc = "locked"]
        /\ UNCHANGED <<lastResult, cycle, pc, existing, buckets, nextIdx, s3s, errs, ret,
                       cancelled, result, collected, pollRet, known,
                       mergeVars, detailsVars, pageVars, rssVars, modalVars>>

\* collect: mu.Lock()
TaskLock ==
    \E i \in 1..Len(task) :
        /\ task[i].pc = "collect"
        /\ mu = 0
        /\ mu' = i
        /\ task' = [task EXCEPT ![i].pc = "locked"]
        /\ UNCHANGED <<lastResult, cycle, pc, existing, buckets, nextIdx, s3s, errs, ret,
                       cancelled, result, collected, pollRet, known,
                       mergeVars, detailsVars, pageVars, rssVars, modalVars>>

\* a collect that drops the snapshot of a task that reports an error
collectS3s_dropOnError(list, s3, err) ==
    IF s3 # Nil /\ err = Nil THEN Append(list, s3) ELSE list

\* collect: s3s after the call
collectS3s(list, s3, err) == IF s3 # Nil THEN Append(list, s3) ELSE list

\* a collect that keeps only the first error
collectErrs_firstOnly(list, s3, err) ==
    IF err # Nil /\ list = <<>> THEN Append(list, err) ELSE list

\* collect: errs after the call
collectErrs(list, s3, err) == IF err # Nil THEN Append(list, err) ELSE list

\* a goroutine that returns the error it collected
goroutineReturn_err(err) == err

\* what the function given to eG.Go returns: nil on both paths
goroutineReturn(err) == Nil

\* collect under the mutex, the deferred mu.Unlock(), and the goroutine's return,
\* which frees its token; the errgroup cancels its context when a goroutine
\* returns an error
TaskCollect ==
    \E i \in 1..Len(task) :
        /\ task[i].pc = "locked"
        /\ mu = i
        /\ errs' = collectErrs(errs, task[i].s3, task[i].err)
        /\ s3s' = collectS3s(s3s, task[i].s3, task[i].err)
        /\ mu' = 0
        /\ task' = [task EXCEPT ![i].pc = "done"]
        /\ cancelled' = (cancelled \/ goroutineReturn(task[i].err) # Nil)
        /\ UNCHANGED <<lastResult, cycle, pc, existing, buckets, nextIdx, ret,
                       result, collected, pollRet, known,
                       mergeVars, detailsVars, pageVars, rssVars, modalVars>>

\* eG.Wait() after the loop, and the return
Wait ==
    /\ pc = "dispatch"
    /\ nextIdx > Len(buckets)
    /\ \A i \in 1..Len(task) : task[i].pc = "done"
    /\ ret' = [S3Buckets |-> s3s, err |-> NewAggregate(errs), listed |-> TRUE]
    /\ pc' = "returned"
    /\ UNCHANGED <<lastResult, cycle, existing, buckets, nextIdx, task, s3s, errs, mu,
                   cancelled, result, collected, pollRet, known,
                   mergeVars, detailsVars, pageVars, rssVars, modalVars>>

\* a poll function that hands the error of the fetch to its caller instead
pollAWSS3Buckets_failsPoll(fetched, collectedBefore) ==
    IF fetched.err # Nil
    THEN [S3Buckets |-> <<>>, collected |-> collectedBefore,
          ret |-> Wrap(fetched.err, "failed to fetch s3 buckets", "")]
    ELSE [S3Buckets |-> fetched.S3Buckets, collected |-> collectedBefore, ret |-> Nil]

\* the function pollAWSS3Buckets returns, after fetchS3Buckets returned
\* `fetched`: result.S3Buckets, the errors handed to collectErr, and its return
pollAWSS3Buckets(fetched, collectedBefore) ==
    [S3Buckets |-> fetched.S3Buckets,
     collected |-> IF fetched.err # Nil
                   THEN Append(collectedBefore,
                               Wrap(fetched.err, "failed to fetch s3 buckets", ""))
                   ELSE collectedBefore,
     ret       |-> Nil]

\* the rest of the function of pollAWSS3Buckets, once fetchS3Buckets returned
PollReturn ==
    /\ pc = "returned"
    /\ LET p == pollAWSS3Buckets(ret, collected)
       IN /\ result' = p.S3Buckets
          /\ collected' = p.collected
          /\ pollRet' = p.ret
    /\ pc' = "polled"
    /\ UNCHANGED <<lastResult, cycle, existing, buckets, nextIdx, task, s3s, errs, mu, ret,
                   cancelled, known, mergeVars, detailsVars, pageVars, rssVars, modalVars>>

\* a retention that takes over whatever the fetch returned
retained_always(prior, fetched, wasCancelled) == fetched.S3Buckets

\* the result set the fetcher retains after a poll: that of a cycle that
\* listed the buckets and was not cancelled, the prior one otherwise
retained(prior, fetched, wasCancelled) ==
    IF fetched.listed /\ ~wasCancelled THEN fetched.S3Buckets ELSE prior

\* the end of the poll: a.lastResult is settled. The history restarts when
\* a result set is not retained.
StoreResult ==
    /\ pc = "polled"
    /\ lastResult' = retained(lastResult, ret, cancelled)
    /\ known' = IF ret.listed /\ cancelled
                THEN [b \in DOMAIN known |-> NothingKnown] ELSE known
    /\ cycle' = cycle + 1
    /\ pc' = "idle"
    /\ existing' = <<>>
    /\ buckets' = <<>>
    /\ nextIdx' = 1
    /\ task' = <<>>
    /\ s3s' = <<>>
    /\ errs' = <<>>
    /\ result' = <<>>
    /\ collected' = <<>>
    /\ pollRet' = Nil
    /\ UNCHANGED <<mu, ret, cancelled, mergeVars, detailsVars, pageVars, rssVars, modalVars>>

-----------------------------------------------------------------------------
(* The Redshift Serverless fetcher: the paginated collectors *)

\* the page cap of the database fetchers
maxAWSPages == 10

\* the most pages a provider of the model holds
MaxSourcePages == 12

\* flatten: the pages' items in one slice, in order
RECURSIVE flatten(_)
flatten(pages) ==
    IF pages = <<>> THEN <<>> ELSE Head(pages) \o flatten(Tail(pages))

\* an error of a request: the HTTP status of the awserr.RequestFailure
RequestFailure(status) == [status |-> status]

\* libcloudaws.ConvertRequestFailureError: the trace error for the status
ConvertRequestFailureError(err) ==
    IF err = Nil THEN Nil
    ELSE [type |-> IF err.status = 403 THEN "AccessDenied"
                   ELSE IF err.status = 404 THEN "NotFound" ELSE "Other"]

\* trace.IsAccessDenied
IsAccessDenied(err) == err # Nil /\ err.type = "AccessDenied"

\* The source of a listing: `pages` are the pages the provider holds (at least
\* one, possibly empty); request k answers with an error when k = errAt, with
\* page k otherwise; the provider says "last page" with its last page, unless
\* it is `endless`: it then never says so and goes on with empty pages.
SourcePage(src, k)   == IF k <= Len(src.pages) THEN src.pages[k] ELSE <<>>
SourceIsLast(src, k) == ~src.endless /\ k >= Len(src.pages)

\* a callback that stops one page earlier
morePages_strict(n) == n < maxAWSPages

\* the callback's answer after appending a page: return len(pages) <= maxAWSPages
morePages(n) == n <= maxAWSPages

\* ListWorkgroupsPagesWithContext / ListEndpointAccessPagesWithContext with the
\* collecting callback, from request k on: the pages collected and the error
RECURSIVE listPages(_, _, _)
listPages(src, pages, k) ==
    IF src.errAt = k
    THEN [pages |-> pages, err |-> RequestFailure(src.errStatus)]
    ELSE LET got == Append(pages, SourcePage(src, k))
         IN IF morePages(Len(got)) /\ ~SourceIsLast(src, k)
            THEN listPages(src, got, k + 1)
            ELSE [pages |-> got, err |-> Nil]

\* getRSSWorkgroups
getRSSWorkgroups(src) ==
    LET r == listPages(src, <<>>, 1)
    IN [items |-> flatten(r.pages), err |-> ConvertRequestFailureError(r.err),
        pages |-> r.pages]

\* getRSSVPCEndpoints
getRSSVPCEndpoints(src) ==
    LET r == listPages(src, <<>>, 1)
    IN [items |-> flatten(r.pages), err |-> ConvertRequestFailureError(r.err),
        pages |-> r.pages]

\* the sources of the collector runs: n pages of one item each
NumberedPages(n) == [k \in 1..n |-> <<k>>]

PageSources ==
    [pages     : {NumberedPages(n) : n \in 1..MaxSourcePages},
     endless   : BOOLEAN,
     errAt     : 0..MaxSourcePages,
     errStatus : {403, 500},
     which     : {"workgroups", "endpoints"}]

PageIdle == pgSource = Nil /\ pgResult = Nil /\ pgCalled = FALSE

InitPage == pgSource \in PageSources /\ pgResult = Nil /\ pgCalled = FALSE

CollectCall ==
    /\ ~pgCalled
    /\ pgResult' = IF pgSource.which = "workgroups"
                   THEN getRSSWorkgroups(pgSource) ELSE getRSSVPCEndpoints(pgSource)
    /\ pgCalled' = TRUE
    /\ UNCHANGED <<pgSource, mergeVars, detailsVars, cycleVars, rssVars, modalVars>>

-----------------------------------------------------------------------------
(* The Redshift Serverless fetcher: GetDatabases *)

\* libcloudaws.IsResourceAvailable
IsResourceAvailable(status) == status = "AVAILABLE"

\* the tags of the account's workgroups
RSSTag1 == [Key |-> "team", Value |-> "data"]

\* the answers to ListTagsForResource
TagAnswers ==
    {[Tags |-> <<RSSTag1>>, err |-> Nil],
     [Tags |-> <<>>, err |-> [type |-> "AccessDenied"]],
     [Tags |-> <<>>, err |-> [type |-> "Other"]]}

\* the workgroups of the account as the provider lists them, each with the
\* provider's answer to the request for its tags
WorkgroupEntries(name) ==
    [wg   : [WorkgroupName : {name}, WorkgroupArn : {name}, Status : {"AVAILABLE", "DELETING"},
             Address : {"", "host"}],
     tags : TagAnswers]

\* the VPC endpoints of the account as the provider lists them
EndpointsOf(name, workgroupNames, addresses) ==
    [EndpointName : {name}, WorkgroupName : workgroupNames,
     EndpointStatus : {"AVAILABLE", "DELETING"}, Address : addresses]

\* none or one of the elements of a set, as a sequence
Optional(S) == {<<>>} \cup {<<x>> : x \in S}

\* one page per item; a provider without items answers with one empty page
OnePagePerItem(items) ==
    IF items = <<>> THEN <<(<<>>)>> ELSE [k \in 1..Len(items) |-> <<items[k]>>]

\* what GetDatabases meets: a client that cannot be created, or a provider
\* with up to two workgroups and up to two endpoints, whose listings may fail
RSSInput(c, entries, wgErrAt, endpoints, epErrAt, epErrStatus) ==
    [clientErr |-> c, entries |-> entries, wgErrAt |-> wgErrAt, endpoints |-> endpoints,
     epErrAt |-> epErrAt, epErrStatus |-> epErrStatus]

\* the source of the workgroup listing and of the endpoint listing of an input
WorkgroupSource(in) ==
    [pages |-> OnePagePerItem([k \in 1..Len(in.entries) |-> in.entries[k].wg]),
     endless |-> FALSE, errAt |-> in.wgErrAt, errStatus |-> 500]

EndpointSource(in) ==
    [pages |-> OnePagePerItem(in.endpoints),
     endless |-> FALSE, errAt |-> in.epErrAt, errStatus |-> in.epErrStatus]

\* the provider's answer to ListTagsForResource for an ARN
TagAnswerFor(in, arn) ==
    LET hits == {k \in 1..Len(in.entries) : in.entries[k].wg.WorkgroupArn = arn}
    IN in.entries[CHOOSE k \in hits : TRUE].tags

\* a getRSSResourceTags that returns nil on every path
getRSSResourceTags_dropsTags(answer) == <<>>

\* getRSSResourceTags: the tags, nil after any error (which is only logged)
getRSSResourceTags(answer) ==
    IF answer.err # Nil THEN <<>> ELSE answer.Tags

\* common.NewDatabaseFromRedshiftServerlessWorkgroup: fails for a workgroup
\* without an endpoint address
NewDatabaseFromRedshiftServerlessWorkgroup(workgroup, tags) ==
    IF workgroup.Address = "" THEN [db |-> Nil, err |-> [type |-> "BadParameter"]]
    ELSE [db  |-> [kind |-> "workgroup", Name |-> workgroup.WorkgroupName,
                   Workgroup |-> workgroup.WorkgroupName, Tags |-> tags],
          err |-> Nil]

\* common.NewDatabaseFromRedshiftServerlessVPCEndpoint: fails for an endpoint
\* without an address
NewDatabaseFromRedshiftServerlessVPCEndpoint(endpoint, workgroup, tags) ==
    IF endpoint.Address = "" THEN [db |-> Nil, err |-> [type |-> "BadParameter"]]
    ELSE [db  |-> [kind |-> "vpc-endpoint", Name |-> endpoint.EndpointName,
                   Workgroup |-> workgroup.WorkgroupName, Tags |-> tags],
          err |-> Nil]

\* a loop that hands a workgroup to the endpoint matching although it could
\* not be converted to a database
RECURSIVE workgroupsLoop_keepsUnconverted(_, _, _, _)
workgroupsLoop_keepsUnconverted(in, workgroups, databases, workgroupsWithTags) ==
    IF workgroups = <<>>
    THEN [databases |-> databases, workgroups |-> workgroupsWithTags, err |-> Nil]
    ELSE LET workgroup == Head(workgroups)
         IN IF ~IsResourceAvailable(workgroup.Status)
            THEN workgroupsLoop_keepsUnconverted(in, Tail(workgroups), databases,
                                                 workgroupsWithTags)
            ELSE LET tags == getRSSResourceTags(TagAnswerFor(in, workgroup.WorkgroupArn))
                     conv == NewDatabaseFromRedshiftServerlessWorkgroup(workgroup, tags)
                 IN workgroupsLoop_keepsUnconverted(
                        in, Tail(workgroups),
                        IF conv.err # Nil THEN databases ELSE Append(databases, conv.db),
                        Append(workgroupsWithTags, [Workgroup |-> workgroup, Tags |-> tags]))

\* a loop that drops a workgroup whose tags could not be fetched
RECURSIVE workgroupsLoop_skipsUntagged(_, _, _, _)
workgroupsLoop_skipsUntagged(in, workgroups, databases, workgroupsWithTags) ==
    IF workgroups = <<>>
    THEN [databases |-> databases, workgroups |-> workgroupsWithTags, err |-> Nil]
    ELSE LET workgroup == Head(workgroups)
         IN IF ~IsResourceAvailable(workgroup.Status)
               \/ TagAnswerFor(in, workgroup.WorkgroupArn).err # Nil
            THEN workgroupsLoop_skipsUntagged(in, Tail(workgroups), databases,
                                              workgroupsWithTags)
            ELSE LET tags == getRSSResourceTags(TagAnswerFor(in, workgroup.WorkgroupArn))
                     conv == NewDatabaseFromRedshiftServerlessWorkgroup(workgroup, tags)
                 IN IF conv.err # Nil
                    THEN workgroupsLoop_skipsUntagged(in, Tail(workgroups), databases,
                                                      workgroupsWithTags)
                    ELSE workgroupsLoop_skipsUntagged(
                             in, Tail(workgroups), Append(databases, conv.db),
                             Append(workgroupsWithTags,
                                    [Workgroup |-> workgroup, Tags |-> tags]))

\* a loop that ends at the first unavailable workgroup instead of going on
\* with the next
RECURSIVE workgroupsLoop_breaks(_, _, _, _)
workgroupsLoop_breaks(in, workgroups, databases, workgroupsWithTags) ==
    IF workgroups = <<>>
    THEN [databases |-> databases, workgroups |-> workgroupsWithTags, err |-> Nil]
    ELSE LET workgroup == Head(workgroups)
         IN IF ~IsResourceAvailable(workgroup.Status)
            THEN [databases |-> databases, workgroups |-> workgroupsWithTags, err |-> Nil]
            ELSE LET tags == getRSSResourceTags(TagAnswerFor(in, workgroup.WorkgroupArn))
                     conv == NewDatabaseFromRedshiftServerlessWorkgroup(workgroup, tags)
                 IN IF conv.err # Nil
                    THEN workgroupsLoop_breaks(in, Tail(workgroups), databases,
                                               workgroupsWithTags)
                    ELSE workgroupsLoop_breaks(in, Tail(workgroups),
                                               Append(databases, conv.db),
                                               Append(workgroupsWithTags,
                                                      [Workgroup |-> workgroup, Tags |-> tags]))

\* the loop of getDatabasesFromWorkgroups over the listed workgroups
RECURSIVE workgroupsLoop(_, _, _, _)
workgroupsLoop(in, workgroups, databases, workgroupsWithTags) ==
    IF workgroups = <<>>
    THEN [databases |-> databases, workgroups |-> workgroupsWithTags, err |-> Nil]
    ELSE LET workgroup == Head(workgroups)
         IN IF ~IsResourceAvailable(workgroup.Status)
            THEN workgroupsLoop(in, Tail(workgroups), databases, workgroupsWithTags)
            ELSE LET tags == getRSSResourceTags(TagAnswerFor(in, workgroup.WorkgroupArn))
                     conv == NewDatabaseFromRedshiftServerlessWorkgroup(workgroup, tags)
                 IN IF conv.err # Nil
                    THEN workgroupsLoop(in, Tail(workgroups), databases, workgroupsWithTags)
                    ELSE workgroupsLoop(in, Tail(workgroups), Append(databases, conv.db),
                                        Append(workgroupsWithTags,
                                               [Workgroup |-> workgroup, Tags |-> tags]))

\* getDatabasesFromWorkgroups
getDatabasesFromWorkgroups(in) ==
    LET listed == getRSSWorkgroups(WorkgroupSource(in))
    IN IF listed.err # Nil
       THEN [databases |-> <<>>, workgroups |-> <<>>, err |-> listed.err]
       ELSE workgroupsLoop(in, listed.items, <<>>, <<>>)

\* a findWorkgroupWithName that falls back to the first workgroup
findWorkgroupWithName_firstOnMiss(workgroups, name) ==
    LET hits == {k \in 1..Len(workgroups) : workgroups[k].Workgroup.WorkgroupName = name}
    IN IF hits = {} THEN [workgroup |-> workgroups[1], found |-> TRUE]
       ELSE [workgroup |-> workgroups[CHOOSE k \in hits : \A j \in hits : k <= j],
             found |-> TRUE]

\* findWorkgroupWithName: the first workgroup of that name
findWorkgroupWithName(workgroups, name) ==
    LET hits == {k \in 1..Len(workgroups) : workgroups[k].Workgroup.WorkgroupName = name}
    IN IF hits = {} THEN [workgroup |-> Nil, found |-> FALSE]
       ELSE [workgroup |-> workgroups[CHOOSE k \in hits : \A j \in hits : k <= j],
             found |-> TRUE]

\* the loop of getDatabasesFromVPCEndpoints over the listed endpoints
RECURSIVE endpointsLoop(_, _, _)
endpointsLoop(workgroups, endpoints, databases) ==
    IF endpoints = <<>> THEN databases
    ELSE LET endpoint == Head(endpoints)
             match    == findWorkgroupWithName(workgroups, endpoint.WorkgroupName)
         IN IF ~match.found
            THEN endpointsLoop(workgroups, Tail(endpoints), databases)
            ELSE IF ~IsResourceAvailable(endpoint.EndpointStatus)
            THEN endpointsLoop(workgroups, Tail(endpoints), databases)
            ELSE LET conv == NewDatabaseFromRedshiftServerlessVPCEndpoint(
                                 endpoint, match.workgroup.Workgroup, match.workgroup.Tags)
                 IN IF conv.err # Nil
                    THEN endpointsLoop(workgroups, Tail(endpoints), databases)
                    ELSE endpointsLoop(workgroups, Tail(endpoints),
                                       Append(databases, conv.db))

\* getDatabasesFromVPCEndpoints
getDatabasesFromVPCEndpoints(in, workgroups) ==
    LET listed == getRSSVPCEndpoints(EndpointSource(in))
    IN IF listed.err # Nil
       THEN [databases |-> <<>>, err |-> listed.err]
       ELSE [databases |-> endpointsLoop(workgroups, listed.items, <<>>), err |-> Nil]

\* a GetDatabases that returns the error of the endpoint listing
GetDatabases_propagates(in) ==
    IF in.clientErr
    THEN [databases |-> <<>>, err |-> [type |-> "Other"], workgroups |-> <<>>,
          listedEndpoints |-> FALSE, logged |-> Nil]
    ELSE LET w == getDatabasesFromWorkgroups(in)
         IN IF w.err # Nil
            THEN [databases |-> <<>>, err |-> w.err, workgroups |-> <<>>,
                  listedEndpoints |-> FALSE, logged |-> Nil]
            ELSE IF Len(w.workgroups) > 0
            THEN LET e == getDatabasesFromVPCEndpoints(in, w.workgroups)
                 IN IF e.err # Nil
                    THEN [databases |-> <<>>, err |-> e.err, workgroups |-> w.workgroups,
                          listedEndpoints |-> TRUE, logged |-> Nil]
                    ELSE [databases |-> w.databases \o e.databases, err |-> Nil,
                          workgroups |-> w.workgroups, listedEndpoints |-> TRUE,
                          logged |-> Nil]
            ELSE [databases |-> w.databases, err |-> Nil, workgroups |-> w.workgroups,
                  listedEndpoints |-> FALSE, logged |-> Nil]

\* GetDatabases; `workgroups` are the workgroups handed to the endpoint
\* listing, `listedEndpoints` says whether that listing was called, `logged`
\* is the error of the endpoint listing that was only logged
GetDatabases(in) ==
    IF in.clientErr
    THEN [databases |-> <<>>, err |-> [type |-> "Other"], workgroups |-> <<>>,
          listedEndpoints |-> FALSE, logged |-> Nil]
    ELSE LET w == getDatabasesFromWorkgroups(in)
         IN IF w.err # Nil
            THEN [databases |-> <<>>, err |-> w.err, workgroups |-> <<>>,
                  listedEndpoints |-> FALSE, logged |-> Nil]
            ELSE IF Len(w.workgroups) > 0
            THEN LET e == getDatabasesFromVPCEndpoints(in, w.workgroups)
                 IN [databases |-> w.databases \o e.databases, err |-> Nil,
                     workgroups |-> w.workgroups, listedEndpoints |-> TRUE,
                     logged |-> e.err]
            ELSE [databases |-> w.databases, err |-> Nil, workgroups |-> w.workgroups,
                  listedEndpoints |-> FALSE, logged |-> Nil]

RssIdle == rssIn = Nil /\ rssRet = Nil /\ rssCalled = FALSE

InitRss ==
    /\ \/ rssIn = RSSInput(TRUE, <<>>, 0, <<>>, 0, 500)
       \/ \E e1 \in Optional(WorkgroupEntries("w1")),
             e2 \in Optional(WorkgroupEntries("w2")),
             we \in 0..2,
             p1 \in Optional(EndpointsOf("e1", {"w1", "w2", "w3"}, {"", "host"})),
             p2 \in Optional(EndpointsOf("e2", {"w1", "w2"}, {"host"})),
             pe \in {[at |-> 0, status |-> 500], [at |-> 1, status |-> 403],
                     [at |-> 1, status |-> 500], [at |-> 2, status |-> 500]} :
            /\ we <= Len(e1 \o e2) \/ we = 1
            /\ pe.at <= Len(p1 \o p2) \/ pe.at = 1
            /\ rssIn = RSSInput(FALSE, e1 \o e2, we, p1 \o p2, pe.at, pe.status)
    /\ rssRet = Nil
    /\ rssCalled = FALSE

GetDatabasesCall ==
    /\ ~rssCalled
    /\ rssRet' = GetDatabases(rssIn)
    /\ rssCalled' = TRUE
    /\ UNCHANGED <<rssIn, mergeVars, detailsVars, cycleVars, pageVars, modalVars>>

-----------------------------------------------------------------------------
(* The Modal component of the web UI (design's Modal.tsx).                  *)
(*                                                                         *)
(* A callback prop is modelled by whether it is provided; the focus        *)
(* handling (lastFocus, disableRestoreFocus) and the styling props have no *)
(* influence on the callbacks and the listener and are left out.           *)

ModalProps ==
    [open : BOOLEAN, disableBackdropClick : BOOLEAN, disableEscapeKeyDown : BOOLEAN,
     hideBackdrop : BOOLEAN, onBackdropClick : BOOLEAN, onClose : BOOLEAN,
     onEscapeKeyDown : BOOLEAN]

\* keydown events of the document
KeyDownEvents ==
    [type : {"keydown"}, key : {"Escape", "Enter"}, defaultPrevented : BOOLEAN]

\* click events reaching the onClick of the Backdrop: on the backdrop itself
\* (target = currentTarget) or bubbling from an element inside it
ClickEvents == [type : {"click"}, targetIsCurrentTarget : BOOLEAN]

Invoked(fn, reason) == [fn |-> fn, reason |-> reason]

ModalIdle ==
    /\ props = Nil
    /\ mounted = FALSE
    /\ listening = FALSE
    /\ calls = <<>>
    /\ event = Nil

\* a Modal constructed with some props and not mounted yet
InitModal ==
    /\ props \in ModalProps
    /\ mounted = FALSE
    /\ listening = FALSE
    /\ calls = <<>>
    /\ event = Nil

\* document.addEventListener('keydown', this.handleDocumentKeyDown)
handleOpen(l) == TRUE

\* a handleClose that leaves the listener where it is
handleClose_keepsListener(l) == l

\* document.removeEventListener('keydown', this.handleDocumentKeyDown)
handleClose(l) == FALSE

componentDidMount ==
    /\ props # Nil
    /\ ~mounted
    /\ mounted' = TRUE
    /\ listening' = IF props.open THEN handleOpen(listening) ELSE listening
    /\ calls' = <<>>
    /\ event' = Nil
    /\ UNCHANGED <<props, mergeVars, detailsVars, cycleVars, pageVars, rssVars>>

\* the parent renders the Modal again with other props
componentDidUpdate ==
    /\ mounted
    /\ \E p \in ModalProps :
        /\ p # props
        /\ props' = p
        /\ listening' = IF props.open /\ ~p.open THEN handleClose(listening)
                        ELSE IF ~props.open /\ p.open THEN handleOpen(listening)
                        ELSE listening
    /\ calls' = <<>>
    /\ event' = Nil
    /\ UNCHANGED <<mounted, mergeVars, detailsVars, cycleVars, pageVars, rssVars>>

componentWillUnmount ==
    /\ mounted
    /\ mounted' = FALSE
    /\ listening' = IF props.open THEN handleClose(listening) ELSE listening
    /\ calls' = <<>>
    /\ event' = Nil
    /\ UNCHANGED <<props, mergeVars, detailsVars, cycleVars, pageVars, rssVars>>

\* render: the Backdrop, with handleBackdropClick as its onClick
backdropRendered(p) == p.open /\ ~p.hideBackdrop

\* the callbacks handleBackdropClick invokes, in order
handleBackdropClick(p, ev) ==
    IF ~ev.targetIsCurrentTarget THEN <<>>
    ELSE (IF p.onBackdropClick THEN <<Invoked("onBackdropClick", "")>> ELSE <<>>)
         \o (IF ~p.disableBackdropClick /\ p.onClose
             THEN <<Invoked("onClose", "backdropClick")>> ELSE <<>>)

\* the callbacks handleDocumentKeyDown invokes, in order
handleDocumentKeyDown(p, ev) ==
    IF ev.key # "Escape" \/ ev.defaultPrevented THEN <<>>
    ELSE (IF p.onEscapeKeyDown THEN <<Invoked("onEscapeKeyDown", "")>> ELSE <<>>)
         \o (IF ~p.disableEscapeKeyDown /\ p.onClose
             THEN <<Invoked("onClose", "escapeKeyDown")>> ELSE <<>>)

\* a click reaches the Backdrop of a mounted, rendered Modal
BackdropClick ==
    /\ mounted
    /\ backdropRendered(props)
    /\ \E ev \in ClickEvents :
        /\ event' = ev
        /\ calls' = handleBackdropClick(props, ev)
    /\ UNCHANGED <<props, mounted, listening, mergeVars, detailsVars, cycleVars, pageVars,
                   rssVars>>

\* a key is pressed: the document dispatches the keydown event to its
\* listeners, handleDocumentKeyDown among them if it is registered
DocumentKeyDown ==
    /\ props # Nil
    /\ \E ev \in KeyDownEvents :
        /\ event' = ev
        /\ calls' = IF listening THEN handleDocumentKeyDown(props, ev) ELSE <<>>
    /\ UNCHANGED <<props, mounted, listening, mergeVars, detailsVars, cycleVars, pageVars,
                   rssVars>>

-----------------------------------------------------------------------------
(* Specifications *)

Init == MergeIdle /\ DetailsIdle /\ CycleInit /\ PageIdle /\ RssIdle /\ ModalIdle

Next ==
    FetchStart \/ Cancel \/ Go \/ TaskRun \/ TaskLock \/ TaskCollect \/ Wait
    \/ PollReturn \/ StoreResult

Spec == Init /\ [][Next]_vars

InitMergeSpec == InitMerge /\ DetailsIdle /\ CycleInit /\ PageIdle /\ RssIdle /\ ModalIdle

SpecMerge == InitMergeSpec /\ [][MergeCall]_vars

InitDetailsSpec == MergeIdle /\ InitDetails /\ CycleInit /\ PageIdle /\ RssIdle /\ ModalIdle

SpecDetails == InitDetailsSpec /\ [][DetailsCall]_vars

NextLimit == FetchStartMany \/ Go \/ TaskRunOk \/ TaskLock \/ TaskCollect \/ Wait

SpecLimit == Init /\ [][NextLimit]_vars

NextHistory ==
    FetchStartOne \/ Cancel \/ Go \/ TaskRun \/ TaskLock \/ TaskCollect \/ Wait
    \/ PollReturn \/ StoreResult

SpecHistory == Init /\ [][NextHistory]_vars

NextReplace ==
    FetchStartBoth \/ ReplaceRetained \/ Go \/ TaskRun \/ TaskLock \/ TaskCollect \/ Wait
    \/ PollReturn \/ StoreResult

SpecReplace == Init /\ [][NextReplace]_vars

InitPageSpec == MergeIdle /\ DetailsIdle /\ CycleInit /\ InitPage /\ RssIdle /\ ModalIdle

SpecPage == InitPageSpec /\ [][CollectCall]_vars

InitRssSpec == MergeIdle /\ DetailsIdle /\ CycleInit /\ PageIdle /\ InitRss /\ ModalIdle

SpecRSS == InitRssSpec /\ [][GetDatabasesCall]_vars

InitModalSpec == MergeIdle /\ DetailsIdle /\ CycleInit /\ PageIdle /\ RssIdle /\ InitModal

NextModal ==
    componentDidMount \/ componentDidUpdate \/ componentWillUnmount
    \/ BackdropClick \/ DocumentKeyDown

SpecModal == InitModalSpec /\ [][NextModal]_vars

-----------------------------------------------------------------------------
(* Properties of mergeS3Protos (checked under SpecMerge) *)

\* C1: with both snapshots present, each of the four governed fields of the
\* merged record is the prior value when that field's flag is set and the
\* fresh value when it is unset, whatever the other flags are.
C1_MergeFieldByOwnFlag ==
    (mCalled /\ mExisting # Nil /\ mNew # Nil) =>
        /\ mResult.PolicyDocument =
              IF mFailedReqs.policyFailed THEN mExisting.PolicyDocument ELSE mNew.PolicyDocument
        /\ mResult.IsPublic =
              IF mFailedReqs.failedPolicyStatus THEN mExisting.IsPublic ELSE mNew.IsPublic
        /\ mResult.Acls = IF mFailedReqs.failedAcls THEN mExisting.Acls ELSE mNew.Acls
        /\ mResult.Tags = IF mFailedReqs.failedTags THEN mExisting.Tags ELSE mNew.Tags

\* a call with mixed flags on snapshots that differ in every governed field
C1_Witness ==
    /\ mCalled /\ mExisting # Nil /\ mNew # Nil
    /\ mFailedReqs.policyFailed /\ ~mFailedReqs.failedPolicyStatus
    /\ ~mFailedReqs.failedAcls /\ mFailedReqs.failedTags
    /\ mExisting.PolicyDocument # mNew.PolicyDocument
    /\ mExisting.IsPublic # mNew.IsPublic
    /\ mExisting.Acls # mNew.Acls
    /\ mExisting.Tags # mNew.Tags
    /\ mResult.PolicyDocument = mExisting.PolicyDocument
    /\ mResult.IsPublic = mNew.IsPublic

\* C2: without a prior snapshot the result is the fresh snapshot, and without a
\* fresh snapshot it is the prior snapshot, whatever the flags are.
C2_MergeAbsentSide ==
    mCalled =>
        /\ mExisting = Nil => mResult = mNew
        /\ mNew = Nil => mResult = mExisting

\* a call without a prior snapshot and with flags set
C2_Witness ==
    /\ mCalled /\ mExisting = Nil /\ mNew # Nil
    /\ mFailedReqs.policyFailed /\ mFailedReqs.failedTags
    /\ mResult = mNew

\* C11: a call of mergeS3Protos leaves the objects its two arguments point to
\* as they were, whatever the flags, and with both arguments present the
\* pointer it returns is that of a new object: neither nil nor one of the two.
C11_MergeLeavesArguments ==
    mCalled =>
        /\ mExisting # Nil => mHeap[ExistingPtr] = mExisting
        /\ mNew # Nil => mHeap[NewPtr] = mNew
        /\ (mExisting # Nil /\ mNew # Nil) =>
              /\ mResultPtr \notin {NilPtr, ExistingPtr, NewPtr}
              /\ mHeap[mResultPtr] = mResult

\* a call with every flag set on snapshots that differ in every governed
\* field: the clone holds the prior values, `new` still holds its own
C11_Witness ==
    /\ mCalled /\ mExisting # Nil /\ mNew # Nil
    /\ mFailedReqs.policyFailed /\ mFailedReqs.failedPolicyStatus
    /\ mFailedReqs.failedAcls /\ mFailedReqs.failedTags
    /\ mExisting.PolicyDocument # mNew.PolicyDocument
    /\ mExisting.IsPublic # mNew.IsPublic
    /\ mExisting.Acls # mNew.Acls
    /\ mExisting.Tags # mNew.Tags
    /\ mResultPtr = FreePtr
    /\ mHeap[FreePtr].Tags = mExisting.Tags
    /\ mHeap[NewPtr].Tags = mNew.Tags

\* C30: with a prior and a fresh snapshot, the name, the account id and the
\* last-sync time of the merged record are those of the fresh snapshot,
\* whatever the flags: also when the four governed fields all come from the
\* prior snapshot.
C30_IdentityAndSyncTimeFromFresh ==
    (mCalled /\ mExisting # Nil /\ mNew # Nil) =>
        /\ mResult.Name = mNew.Name
        /\ mResult.AccountId = mNew.AccountId
        /\ mResult.LastSyncTime = mNew.LastSyncTime
        /\ mHeap[mResultPtr].LastSyncTime = mNew.LastSyncTime

\* the four flags are set and the prior snapshot, synced earlier, differs from
\* the fresh one in every governed field: the merged record has the prior's
\* fields and the fresh last-sync time
C30_Witness ==
    /\ mCalled /\ mExisting # Nil /\ mNew # Nil
    /\ mFailedReqs.policyFailed /\ mFailedReqs.failedPolicyStatus
    /\ mFailedReqs.failedAcls /\ mFailedReqs.failedTags
    /\ mExisting.LastSyncTime # mNew.LastSyncTime
    /\ mExisting.PolicyDocument # mNew.PolicyDocument
    /\ mExisting.Tags # mNew.Tags
    /\ mResult.Tags = mExisting.Tags
    /\ mResult.PolicyDocument = mExisting.PolicyDocument
    /\ mResult.LastSyncTime = mNew.LastSyncTime

-----------------------------------------------------------------------------
(* Properties of getS3BucketDetails (checked under SpecDetails) *)

\* the claim's classes of errors: a missing policy, a missing tag set
IsNoSuchBucketPolicy(e) == e # Nil /\ e.awsErr /\ e.Code = "NoSuchBucketPolicy"
IsNoSuchTagSet(e)       == e # Nil /\ e.awsErr /\ e.Code = "NoSuchTagSet"

\* the errors of `es` recorded for operation `op`
ErrorsOf(es, op) == {i \in 1..Len(es) : es[i].op = op}

\* C5: with the S3 client created, NoSuchBucketPolicy on the policy or the
\* policy status request and NoSuchTagSet on the tag request record no error
\* and set no flag; any other error of one of the four requests appends exactly
\* one error and sets the flag of that field and of no other; all four requests
\* are issued whatever the earlier ones answered.
C5_SoftAndHardFailures ==
    (dCalled /\ dResp.client.err = Nil) =>
        LET hardPolicy == dResp.policy.err # Nil /\ ~IsNoSuchBucketPolicy(dResp.policy.err)
            hardStatus == dResp.policyStatus.err # Nil
                          /\ ~IsNoSuchBucketPolicy(dResp.policyStatus.err)
            hardAcls   == dResp.acls.err # Nil
            hardTags   == dResp.tags.err # Nil /\ ~IsNoSuchTagSet(dResp.tags.err)
            count(b)   == IF b THEN 1 ELSE 0
        IN /\ dResult.failedReqs.policyFailed = hardPolicy
           /\ dResult.failedReqs.failedPolicyStatus = hardStatus
           /\ dResult.failedReqs.failedAcls = hardAcls
           /\ dResult.failedReqs.failedTags = hardTags
           /\ ~dResult.failedReqs.headFailed
           /\ Cardinality(ErrorsOf(dResult.errs, "inline policy")) = count(hardPolicy)
           /\ Cardinality(ErrorsOf(dResult.errs, "policy status")) = count(hardStatus)
           /\ Cardinality(ErrorsOf(dResult.errs, "acls policies")) = count(hardAcls)
           /\ Cardinality(ErrorsOf(dResult.errs, "tags")) = count(hardTags)
           /\ Len(dResult.errs) =
                 count(hardPolicy) + count(hardStatus) + count(hardAcls) + count(hardTags)
           /\ dResult.calls = <<"GetBucketPolicy", "GetBucketPolicyStatus",
                                "GetBucketAcl", "GetBucketTagging">>

\* soft errors on the policy and the tags beside a failing ACL request: one
\* error, one flag
C5_Witness ==
    /\ dCalled /\ dResp.client.err = Nil
    /\ IsNoSuchBucketPolicy(dResp.policy.err)
    /\ dResp.policyStatus.err = Nil
    /\ dResp.acls.err # Nil
    /\ IsNoSuchTagSet(dResp.tags.err)
    /\ Len(dResult.errs) = 1
    /\ dResult.failedReqs.failedAcls
    /\ ~dResult.failedReqs.policyFailed /\ ~dResult.failedReqs.failedTags

-----------------------------------------------------------------------------
(* Properties of fetchS3Buckets *)

\* the positions of the records of bucket `name` in a list of snapshots
RecordsOf(list, name) == {k \in 1..Len(list) : list[k].Name = name}

\* C3: with more buckets listed than the limit, the goroutines of the errgroup
\* that are active at the same time are never more than Limit (SpecLimit).
C3_InFlightAtMostLimit ==
    Len(buckets) > Limit => Cardinality(InFlight) <= Limit

\* Limit tasks are in flight and the loop has a bucket left to start
C3_Witness ==
    /\ Len(buckets) > Limit
    /\ Cardinality(InFlight) = Limit
    /\ pc = "dispatch" /\ nextIdx <= Len(buckets)

\* C6: after a listing that succeeded, the returned list holds exactly one
\* record for every listed bucket and nothing else, whatever the answers of the
\* provider and the order in which the tasks ran.
C6_OneRecordPerListedBucket ==
    (pc = "returned" /\ ret.listed) =>
        /\ Len(ret.S3Buckets) = Len(buckets)
        /\ \A i \in 1..Len(buckets) :
              Cardinality(RecordsOf(ret.S3Buckets, buckets[i])) = 1

\* two buckets, one without region and one with every detail request refused,
\* collected in the reverse of the listing's order
C6_Witness ==
    /\ pc = "returned" /\ ret.listed
    /\ Len(buckets) = 2
    /\ task[1].resp = RespRegionFail
    /\ task[2].resp = RespAllDenied
    /\ ret.S3Buckets[1].Name = buckets[2]
    /\ ret.S3Buckets[2].Name = buckets[1]

\* the one failure of the cycle is the tag request of bucket i, which has
\* tags in the prior result set
OnlyTagsFailedFor(i) ==
    /\ task[i].resp = RespTagsDenied
    /\ \A j \in 1..Len(task) : j # i => task[j].err = Nil
    /\ sliceFilterPickFirst(existing, buckets[i], AccountID) # Nil
    /\ sliceFilterPickFirst(existing, buckets[i], AccountID).Tags # <<>>

\* C7: when the only failure of a cycle is a refused tag request for a bucket
\* that has tags in the prior result set, the returned record of that bucket
\* carries the prior tags and the returned aggregate holds one entry, the
\* error of that bucket's tag request.
C7_TagsKeptOnDeniedTagFetch ==
    (pc = "returned" /\ ret.listed) =>
        \A i \in 1..Len(buckets) :
            OnlyTagsFailedFor(i) =>
                /\ \A k \in RecordsOf(ret.S3Buckets, buckets[i]) :
                      ret.S3Buckets[k].Tags =
                          sliceFilterPickFirst(existing, buckets[i], AccountID).Tags
                /\ RecordsOf(ret.S3Buckets, buckets[i]) # {}
                /\ ret.err # Nil
                /\ ret.err.errors = <<NewAggregate(<<Wrap(Denied, "tags", buckets[i])>>)>>

\* the second cycle refuses the tags of a bucket the first cycle saw tagged,
\* while another bucket is fetched without failure
C7_Witness ==
    /\ pc = "returned" /\ ret.listed
    /\ Len(buckets) = 2
    /\ OnlyTagsFailedFor(1)
    /\ ret.S3Buckets[2].Name = buckets[1]
    /\ ret.S3Buckets[2].Tags # <<>>

\* C8: when the client cannot be created or ListBuckets fails, fetchS3Buckets
\* returns the retained result set as it is and an error, starts no task and
\* collects nothing.
C8_ListingFailureReturnsPrior ==
    (pc = "returned" /\ ~ret.listed) =>
        /\ ret.S3Buckets = lastResult
        /\ ret.err # Nil
        /\ task = <<>>
        /\ s3s = <<>> /\ errs = <<>>

\* the listing fails while the retained result set holds two buckets
C8_Witness ==
    /\ pc = "returned" /\ ~ret.listed
    /\ Len(lastResult) = 2
    /\ ret.S3Buckets = lastResult

\* the governed fields of a snapshot
GovernedFields == {"PolicyDocument", "IsPublic", "Acls", "Tags"}

\* the tasks that have run up to their call of collect
Computed == {i \in 1..Len(task) : task[i].pc \in {"collect", "locked", "done"}}

\* the tasks whose region lookup failed
RegionFailed == {i \in Computed : task[i].resp.region.err # Nil}

\* C24: a task whose region lookup fails makes no detail request, sets the four
\* flags of the policy, the policy status, the ACL and the tags, records the
\* error of the lookup, and hands to collect a record with the bucket's name and
\* account whose governed fields are those of the prior entry when there is
\* one; the record is in the returned list; and a bucket of the same cycle
\* whose requests all succeed gets its fresh values and no error.
C24_RegionFailureFallsBackToPrior ==
    \A i \in RegionFailed :
        LET prior == sliceFilterPickFirst(existing, buckets[i], AccountID)
        IN /\ task[i].calls = <<>>
           /\ task[i].failedReqs.policyFailed /\ task[i].failedReqs.failedPolicyStatus
           /\ task[i].failedReqs.failedAcls /\ task[i].failedReqs.failedTags
           /\ task[i].err # Nil
           /\ task[i].err.errors = <<Wrap(task[i].resp.region.err, "region", buckets[i])>>
           /\ task[i].s3 # Nil
           /\ task[i].s3.Name = buckets[i] /\ task[i].s3.AccountId = AccountID
           /\ prior # Nil => \A f \in GovernedFields : task[i].s3[f] = prior[f]
           /\ (pc = "returned" /\ ret.listed) =>
                 \E k \in 1..Len(ret.S3Buckets) : ret.S3Buckets[k] = task[i].s3
           /\ \A j \in Computed :
                 task[j].resp = RespAllOk =>
                    /\ task[j].err = Nil
                    /\ task[j].s3 = awsS3Bucket(buckets[j], RespAllOk.policy.out,
                                                RespAllOk.policyStatus.out, RespAllOk.acls.out,
                                                RespAllOk.tags.out, AccountID, cycle)

\* the second cycle returns two records: that of a bucket whose region lookup
\* failed, with the tags and the policy of the first cycle, and that of a
\* bucket fetched without failure
C24_Witness ==
    /\ pc = "returned" /\ ret.listed
    /\ Len(buckets) = 2
    /\ 1 \in RegionFailed
    /\ task[2].resp = RespAllOk
    /\ sliceFilterPickFirst(existing, buckets[1], AccountID) # Nil
    /\ \E k \in 1..Len(ret.S3Buckets) :
          /\ ret.S3Buckets[k].Name = buckets[1]
          /\ ret.S3Buckets[k].Tags # <<>>
          /\ ret.S3Buckets[k].PolicyDocument # ""
          /\ ret.S3Buckets[k].LastSyncTime = cycle

\* the prior result set has no record with the name of bucket i and the account
NoPriorEntry(i) ==
    \A k \in 1..Len(existing) :
        ~(existing[k].Name = buckets[i] /\ existing[k].AccountId = AccountID)

\* C25: for a listed bucket without an entry in the prior result set, every
\* field whose request failed in this cycle is empty in the record handed to
\* collect and returned: nothing is made up or taken from another bucket's
\* prior entry.
C25_NoPriorFailedFieldsEmpty ==
    \A i \in Computed :
        NoPriorEntry(i) =>
            /\ task[i].s3 # Nil
            /\ task[i].s3.Name = buckets[i]
            /\ task[i].failedReqs.policyFailed => task[i].s3.PolicyDocument = ""
            /\ task[i].failedReqs.failedPolicyStatus => task[i].s3.IsPublic = FALSE
            /\ task[i].failedReqs.failedAcls => task[i].s3.Acls = <<>>
            /\ task[i].failedReqs.failedTags => task[i].s3.Tags = <<>>
            /\ (pc = "returned" /\ ret.listed) =>
                  \A k \in RecordsOf(ret.S3Buckets, buckets[i]) :
                      ret.S3Buckets[k] = task[i].s3

\* the prior result set holds the tagged record of another bucket, and a bucket
\* listed for the first time, with every detail request refused, is returned
\* without policy, ACL and tags
C25_Witness ==
    /\ pc = "returned" /\ ret.listed
    /\ existing # <<>>
    /\ existing[1].Tags # <<>>
    /\ \E i \in Computed :
          /\ NoPriorEntry(i)
          /\ task[i].resp = RespAllDenied
          /\ \E k \in RecordsOf(ret.S3Buckets, buckets[i]) :
                /\ ret.S3Buckets[k].Tags = <<>>
                /\ ret.S3Buckets[k].PolicyDocument = ""

\* the tasks whose four detail requests, or whose region lookup, failed
AllFailed ==
    {i \in Computed :
        /\ task[i].failedReqs.policyFailed /\ task[i].failedReqs.failedPolicyStatus
        /\ task[i].failedReqs.failedAcls /\ task[i].failedReqs.failedTags}

\* C26: the prior result set of a cycle is the retained result set as it was
\* when fetchS3Buckets started; every task of the cycle reconciles against it,
\* also when the retained result set is replaced while tasks run; and no step
\* of the cycle changes it or a snapshot in it (SpecReplace).
C26_TasksReadCapturedPrior ==
    /\ [](\A i \in AllFailed :
            \A k \in 1..Len(existing) :
                (existing[k].Name = buckets[i] /\ existing[k].AccountId = AccountID) =>
                    \A f \in GovernedFields : task[i].s3[f] = existing[k][f])
    /\ [][(pc = "idle" /\ pc' # "idle") => existing' = lastResult]_vars
    /\ [][pc = "dispatch" => existing' = existing]_vars

\* the retained result set was replaced while the cycle ran, and both tasks,
\* their requests refused, have collected the tags of the captured one
C26_Witness ==
    /\ pc = "returned" /\ ret.listed
    /\ lastResult # existing
    /\ Len(existing) = 2
    /\ AllFailed = {1, 2}
    /\ \A k \in 1..2 : ret.S3Buckets[k].Tags # <<>>

\* the tasks whose region lookup succeeded and whose client could not be created
ClientFailed ==
    {i \in Computed : task[i].resp.region.err = Nil /\ task[i].resp.client.err # Nil}

\* C32: when the S3 client of the bucket's region cannot be created,
\* getS3BucketDetails makes none of the four requests and returns empty
\* details, one error and the five flags set (policy, policy status, ACL, tags
\* and head); the record handed to collect takes every governed field from the
\* prior entry when there is one.
C32_ClientFailureFallsBackToPrior ==
    \A i \in ClientFailed :
        LET d == getS3BucketDetails(buckets[i], task[i].resp)
        IN /\ d.calls = <<>> /\ task[i].calls = <<>>
           /\ d.details = [policy |-> Nil, policyStatus |-> Nil, acls |-> Nil, tags |-> Nil]
           /\ Len(d.errs) = 1
           /\ task[i].err # Nil
           /\ task[i].err.errors =
                  <<Wrap(task[i].resp.client.err, "create s3 client", buckets[i])>>
           /\ \A f \in DOMAIN task[i].failedReqs : task[i].failedReqs[f]
           /\ task[i].s3 # Nil /\ task[i].s3.Name = buckets[i]
           /\ \A k \in 1..Len(existing) :
                 (existing[k].Name = buckets[i] /\ existing[k].AccountId = AccountID) =>
                     \A f \in GovernedFields : task[i].s3[f] = existing[k][f]
           /\ NoPriorEntry(i) =>
                 task[i].s3 = awsS3Bucket(buckets[i], Nil, Nil, Nil, Nil, AccountID, cycle)

\* the first cycle fetched the policy and the tags of a bucket; in the second
\* the client for it cannot be created, and the returned record has them
C32_Witness ==
    /\ pc = "returned" /\ ret.listed
    /\ \E i \in ClientFailed :
          /\ ~NoPriorEntry(i)
          /\ \E k \in RecordsOf(ret.S3Buckets, buckets[i]) :
                /\ ret.S3Buckets[k].Tags # <<>>
                /\ ret.S3Buckets[k].PolicyDocument # ""
                /\ ret.S3Buckets[k].LastSyncTime = cycle

\* the tasks that handed an error to collect
FailingTasks == {i \in 1..Len(task) : task[i].err # Nil}

\* the tasks that hold the mutex, and those that have returned
Locked   == {i \in 1..Len(task) : task[i].pc = "locked"}
Finished == {i \in 1..Len(task) : task[i].pc = "done"}

\* C27: while the tasks of a cycle run, s3s and errs change only in the step
\* of the task that holds the mutex, and at most one task holds it; that step
\* appends the task's record to s3s and its error, if any, to errs, and ends
\* the task, so that each task appends once; nothing appended is lost: the
\* lists hold one record per finished task and one error per finished task
\* that failed, and fetchS3Buckets reads them, without the mutex, only when
\* every started task has finished: it returns one record per task and one
\* error per failing task.
C27_AccumulatorsUnderMutex ==
    /\ [](  /\ Cardinality(Locked) <= 1
            /\ \A i \in Locked : mu = i
            /\ pc = "dispatch" =>
                  /\ Len(s3s) = Cardinality(Finished)
                  /\ Len(errs) = Cardinality(Finished \cap FailingTasks)
                  /\ \A i \in Finished : \E k \in 1..Len(s3s) : s3s[k] = task[i].s3
            /\ (pc = "returned" /\ ret.listed) =>
                  /\ Finished = 1..Len(task)
                  /\ Len(ret.S3Buckets) = Len(task)
                  /\ Len(errs) = Cardinality(FailingTasks)
                  /\ ret.S3Buckets = s3s)
    /\ [][(pc = "dispatch" /\ (s3s' # s3s \/ errs' # errs)) =>
             /\ mu \in Locked
             /\ task'[mu].pc = "done"
             /\ mu' = 0
             /\ s3s' = Append(s3s, task[mu].s3)
             /\ errs' = IF task[mu].err # Nil THEN Append(errs, task[mu].err) ELSE errs]_vars

\* one task holds the mutex while the other waits at its collect; the first
\* has failed, the second has not
C27_WitnessContention ==
    /\ pc = "dispatch"
    /\ Len(task) = 2
    /\ task[2].pc = "locked" /\ task[2].err # Nil
    /\ task[1].pc = "collect" /\ task[1].err = Nil

\* C12: when fetchS3Buckets returns after a listing that succeeded, a task was
\* started for every listed bucket and every task has finished, whatever the
\* tasks' failures; the returned aggregate holds the error of every failing
\* task, one entry each, and is nil only when none failed; and no step in
\* which a task finishes cancels the context of the others.
C12_WaitsForEveryTask ==
    /\ [](  (pc = "returned" /\ ret.listed) =>
              /\ Len(task) = Len(buckets)
              /\ \A i \in 1..Len(task) : task[i].pc = "done"
              /\ (ret.err = Nil) = (FailingTasks = {})
              /\ FailingTasks # {} =>
                    /\ Len(ret.err.errors) = Cardinality(FailingTasks)
                    /\ \A i \in FailingTasks :
                          \E k \in 1..Len(ret.err.errors) : ret.err.errors[k] = task[i].err)
    /\ [][(\E i \in 1..Len(task) : task[i].pc = "locked" /\ task'[i].pc = "done")
             => cancelled' = cancelled]_vars

\* both buckets' tasks fail, the one collected first at its region lookup:
\* the second still made its requests, and both errors are returned
C12_Witness ==
    /\ pc = "returned" /\ ret.listed /\ ~cancelled
    /\ Len(buckets) = 2
    /\ task[2].resp = RespRegionFail
    /\ task[1].resp = RespAllDenied
    /\ ret.err # Nil
    /\ ret.err.errors = <<task[2].err, task[1].err>>

\* C14: after a listing that succeeded, the returned list holds no record of
\* a bucket that is not in the listing, also when the retained result set
\* holds one.
C14_DisappearedBucketsDropped ==
    (pc = "returned" /\ ret.listed) =>
        \A k \in 1..Len(ret.S3Buckets) : ret.S3Buckets[k].Name \in NamesOf(buckets)

\* the retained result set holds two buckets, the listing only the first:
\* one record is returned
C14_Witness ==
    /\ pc = "returned" /\ ret.listed
    /\ Len(existing) = 2
    /\ buckets = <<AllBucketNames[1]>>
    /\ RecordsOf(existing, AllBucketNames[2]) # {}
    /\ Len(ret.S3Buckets) = 1
    /\ ret.S3Buckets[1].Name = AllBucketNames[1]

\* C15: once the context of the poll is cancelled, the range loop of
\* fetchS3Buckets starts no further task.
C15_NoDispatchAfterCancel ==
    [][(cancelled /\ pc = "dispatch" /\ pc' = "dispatch") => nextIdx' = nextIdx]_vars

\* C16: a cycle cancelled after the listing succeeded returns the record of
\* every task that collected one, as the task produced it, and an error that
\* is not nil.
C16_CancelledCycleReturnsError ==
    (pc = "returned" /\ ret.listed /\ cancelled) =>
        /\ \A i \in 1..Len(task) :
              (task[i].pc = "done" /\ task[i].s3 # Nil) =>
                  \E k \in 1..Len(ret.S3Buckets) : ret.S3Buckets[k] = task[i].s3
        /\ ret.err # Nil

\* C17: the retained result set changes only at the end of a poll whose fetch
\* listed the buckets and whose context was not cancelled, and then to the
\* list that fetch returned; after a cancelled cycle or a failed listing it
\* stays as it was.
C17_RetainedOnlyFromCompleteCycle ==
    [][lastResult' # lastResult =>
         (pc = "polled" /\ ret.listed /\ ~cancelled /\ lastResult' = ret.S3Buckets)]_vars

\* the second poll was cancelled after listing two buckets and returned their
\* records; the retained result set is still that of the first poll, of one
\* bucket
C17_Witness ==
    /\ pc = "idle" /\ cycle = 3
    /\ cancelled /\ ret.listed
    /\ Len(ret.S3Buckets) = 2
    /\ Len(lastResult) = 1
    /\ lastResult[1].LastSyncTime = 1

\* C19: the function of pollAWSS3Buckets returns nil; result.S3Buckets is the
\* list fetchS3Buckets returned, with or without an error; collectErr was
\* called once, with that error, when fetchS3Buckets returned one, and not at
\* all when it returned none.
C19_PollDeliversDataAndError ==
    pc = "polled" =>
        /\ pollRet = Nil
        /\ result = ret.S3Buckets
        /\ ret.err = Nil => collected = <<>>
        /\ ret.err # Nil => (Len(collected) = 1 /\ collected[1].cause = ret.err)

\* a fetch that returned two records and the errors of one task
C19_Witness ==
    /\ pc = "polled" /\ ret.listed
    /\ ret.err # Nil
    /\ Len(ret.S3Buckets) = 2
    /\ result = ret.S3Buckets
    /\ Len(collected) = 1

\* the public-access status of bucket i is unknown: the request failed and
\* the prior result set has no record of the bucket
StatusUnknown(i) ==
    /\ task[i].failedReqs.failedPolicyStatus
    /\ sliceFilterPickFirst(existing, buckets[i], AccountID) = Nil

\* C20: in a returned list, the record of a bucket whose public-access status
\* is unknown does not carry the IsPublic value of the record of a bucket
\* whose status was fetched and says "not public".
C20_UnknownStatusNotNonPublic ==
    (pc = "returned" /\ ret.listed) =>
        \A i, j \in 1..Len(task) :
            (StatusUnknown(i) /\ task[j].resp = RespNotPublic) =>
                task[i].s3.IsPublic # task[j].s3.IsPublic

-----------------------------------------------------------------------------
(* Properties of the S3 fetcher over the polls (checked under SpecHistory) *)

\* C13: a bucket being listed poll after poll and each poll's output being
\* retained for the next, every governed field of the bucket's returned record
\* is the value of the most recent poll in which the request for that field
\* did not fail (a "no such policy / tag set" being an empty value fetched).
C13_FieldIsLastFetchedValue ==
    (pc = "returned" /\ ret.listed) =>
        \A k \in 1..Len(ret.S3Buckets) :
            \A f \in GovernedFields :
                known[ret.S3Buckets[k].Name][f] # <<>> =>
                    ret.S3Buckets[k][f] = known[ret.S3Buckets[k].Name][f][1].v

\* the tags fetched in poll 1 are returned in poll 3, after the tag request
\* failed in poll 2 and again in poll 3, while the ACL shows the value of the
\* poll in progress
C13_Witness ==
    /\ pc = "returned" /\ ret.listed
    /\ cycle = 3
    /\ Len(ret.S3Buckets) = 1
    /\ Len(existing) = 1 /\ existing[1].LastSyncTime = 2
    /\ known[ret.S3Buckets[1].Name].Tags # <<>>
    /\ known[ret.S3Buckets[1].Name].Tags[1].at = 1
    /\ known[ret.S3Buckets[1].Name].Acls # <<>>
    /\ known[ret.S3Buckets[1].Name].Acls[1].at = 3
    /\ ret.S3Buckets[1].Tags # <<>>
    /\ ~Answered(task[1].resp).Tags

-----------------------------------------------------------------------------
(* Properties of the paginated collectors (checked under SpecPage) *)

\* C4: against a provider that never says "last page", a collector that ends
\* without error has collected at most maxAWSPages pages.
C4_PagesAtMostCap ==
    (pgCalled /\ pgSource.endless /\ pgResult.err = Nil) =>
        Len(pgResult.pages) <= maxAWSPages

\* C23: a collector whose listing fails after some pages were received returns
\* the error and no items: what it collected before the error is not returned.
C23_FailedListingReturnsNoItems ==
    (pgCalled /\ pgResult.err # Nil) => pgResult.items = <<>>

-----------------------------------------------------------------------------
(* Properties of GetDatabases (checked under SpecRSS) *)

\* the databases of a kind and name in what GetDatabases returned
DatabasesOf(kind, name) ==
    {k \in 1..Len(rssRet.databases) :
        rssRet.databases[k].kind = kind /\ rssRet.databases[k].Name = name}

\* the tags the provider's answer holds for a workgroup: none after an error
FetchedTags(answer) == IF answer.err = Nil THEN answer.Tags ELSE <<>>

\* a listed workgroup that is available and converts to a database
Emittable(w) == w.Status = "AVAILABLE" /\ w.Address # ""

\* C9: both listings succeeding, for an available workgroup and an available
\* endpoint that names it (both convertible to database records), GetDatabases
\* returns the workgroup's record and the endpoint's record, and the
\* endpoint's record carries the tags fetched for that workgroup.
C9_EndpointCarriesWorkgroupTags ==
    (rssCalled /\ ~rssIn.clientErr /\ rssIn.wgErrAt = 0 /\ rssIn.epErrAt = 0) =>
        \A k \in 1..Len(rssIn.entries), j \in 1..Len(rssIn.endpoints) :
            LET w == rssIn.entries[k].wg
                e == rssIn.endpoints[j]
            IN (/\ Emittable(w)
                /\ e.EndpointStatus = "AVAILABLE" /\ e.Address # ""
                /\ e.WorkgroupName = w.WorkgroupName) =>
                  /\ rssRet.err = Nil
                  /\ DatabasesOf("workgroup", w.WorkgroupName) # {}
                  /\ DatabasesOf("vpc-endpoint", e.EndpointName) # {}
                  /\ \A b \in DatabasesOf("vpc-endpoint", e.EndpointName) :
                        rssRet.databases[b].Tags = FetchedTags(rssIn.entries[k].tags)

\* two workgroups, the first untagged for GetDatabases (its tag request is
\* refused), the second tagged, and an endpoint of the second
C9_Witness ==
    /\ rssCalled /\ ~rssIn.clientErr /\ rssIn.wgErrAt = 0 /\ rssIn.epErrAt = 0
    /\ Len(rssIn.entries) = 2 /\ Len(rssIn.endpoints) = 1
    /\ Emittable(rssIn.entries[1].wg) /\ Emittable(rssIn.entries[2].wg)
    /\ rssIn.entries[1].tags.err # Nil
    /\ rssIn.entries[2].tags.err = Nil
    /\ rssIn.endpoints[1].WorkgroupName = "w2"
    /\ rssIn.endpoints[1].EndpointStatus = "AVAILABLE" /\ rssIn.endpoints[1].Address # ""
    /\ Len(rssRet.databases) = 3
    /\ rssRet.databases[3].kind = "vpc-endpoint"
    /\ rssRet.databases[3].Tags = <<RSSTag1>>

\* C10: the workgroup listing succeeding, an endpoint whose workgroup name is
\* that of no workgroup fetched in this call yields no record and no error:
\* GetDatabases returns a nil error and the record of every workgroup fetched.
C10_OrphanEndpointSkipped ==
    (rssCalled /\ ~rssIn.clientErr /\ rssIn.wgErrAt = 0) =>
        /\ rssRet.err = Nil
        /\ \A j \in 1..Len(rssIn.endpoints) :
              (\A k \in 1..Len(rssIn.entries) :
                    Emittable(rssIn.entries[k].wg) =>
                        rssIn.entries[k].wg.WorkgroupName # rssIn.endpoints[j].WorkgroupName)
              => DatabasesOf("vpc-endpoint", rssIn.endpoints[j].EndpointName) = {}
        /\ \A k \in 1..Len(rssIn.entries) :
              Emittable(rssIn.entries[k].wg) =>
                  DatabasesOf("workgroup", rssIn.entries[k].wg.WorkgroupName) # {}

\* workgroup w1 is fetched, and an available endpoint names w3, which is not
\* listed: the endpoint listing succeeds and only w1's record is returned
C10_Witness ==
    /\ rssCalled /\ ~rssIn.clientErr /\ rssIn.wgErrAt = 0 /\ rssIn.epErrAt = 0
    /\ Len(rssIn.entries) = 1 /\ Emittable(rssIn.entries[1].wg)
    /\ Len(rssIn.endpoints) = 1
    /\ rssIn.endpoints[1].WorkgroupName = "w3"
    /\ rssIn.endpoints[1].EndpointStatus = "AVAILABLE" /\ rssIn.endpoints[1].Address # ""
    /\ rssRet.listedEndpoints
    /\ rssRet.err = Nil
    /\ Len(rssRet.databases) = 1
    /\ rssRet.databases[1].Name = "w1"

\* GetDatabases listed the endpoints and that listing failed
EndpointListingFailed ==
    /\ rssCalled /\ ~rssIn.clientErr /\ rssIn.wgErrAt = 0
    /\ rssRet.listedEndpoints
    /\ rssIn.epErrAt # 0

\* the workgroups of the input that GetDatabases turns into records
EmittableEntries == {k \in 1..Len(rssIn.entries) : Emittable(rssIn.entries[k].wg)}

\* C18 as stated: when the endpoint listing fails, GetDatabases returns that
\* failure as its error and no databases.
C18_EndpointListingFailureAborts ==
    EndpointListingFailed => (rssRet.err # Nil /\ rssRet.databases = <<>>)

\* C18, amended: when the endpoint listing fails, GetDatabases returns a nil
\* error and exactly the records of the workgroups it fetched, no endpoint
\* record among them; the failure of the listing is only logged.
C18_EndpointListingFailureLogged ==
    EndpointListingFailed =>
        /\ rssRet.err = Nil
        /\ rssRet.logged # Nil
        /\ Len(rssRet.databases) = Cardinality(EmittableEntries)
        /\ \A k \in EmittableEntries :
              DatabasesOf("workgroup", rssIn.entries[k].wg.WorkgroupName) # {}
        /\ \A b \in 1..Len(rssRet.databases) : rssRet.databases[b].kind = "workgroup"

\* two workgroups are fetched, an available endpoint of the first exists, and
\* the endpoint listing is refused: two records and no error are returned
C18_Witness ==
    /\ EndpointListingFailed
    /\ rssIn.epErrStatus = 403
    /\ Cardinality(EmittableEntries) = 2
    /\ Len(rssIn.endpoints) >= 1
    /\ rssIn.endpoints[1].WorkgroupName = "w1"
    /\ rssIn.endpoints[1].EndpointStatus = "AVAILABLE" /\ rssIn.endpoints[1].Address # ""
    /\ rssRet.err = Nil
    /\ Len(rssRet.databases) = 2

\* the listed endpoints that are available, convert to a database and name a
\* workgroup GetDatabases turned into a record
EmittableEndpoints ==
    {j \in 1..Len(rssIn.endpoints) :
        /\ rssIn.endpoints[j].EndpointStatus = "AVAILABLE"
        /\ rssIn.endpoints[j].Address # ""
        /\ \E k \in EmittableEntries :
              rssIn.entries[k].wg.WorkgroupName = rssIn.endpoints[j].WorkgroupName}

\* C28: a workgroup or an endpoint whose status is not available yields no
\* record and no error, and the others of the same listing are processed as
\* if it were not there: every available, convertible workgroup has its
\* record, and so has every such endpoint of a fetched workgroup.
C28_UnavailableSkipped ==
    (rssCalled /\ ~rssIn.clientErr /\ rssIn.wgErrAt = 0) =>
        /\ rssRet.err = Nil
        /\ \A k \in 1..Len(rssIn.entries) :
              IF rssIn.entries[k].wg.Status # "AVAILABLE"
              THEN DatabasesOf("workgroup", rssIn.entries[k].wg.WorkgroupName) = {}
              ELSE k \in EmittableEntries =>
                      DatabasesOf("workgroup", rssIn.entries[k].wg.WorkgroupName) # {}
        /\ \A j \in 1..Len(rssIn.endpoints) :
              IF rssIn.endpoints[j].EndpointStatus # "AVAILABLE"
              THEN DatabasesOf("vpc-endpoint", rssIn.endpoints[j].EndpointName) = {}
              ELSE (j \in EmittableEndpoints /\ rssIn.epErrAt = 0) =>
                      DatabasesOf("vpc-endpoint", rssIn.endpoints[j].EndpointName) # {}

\* the first workgroup and the first endpoint are being deleted; the second
\* workgroup and its endpoint, listed after them, are returned
C28_Witness ==
    /\ rssCalled /\ ~rssIn.clientErr /\ rssIn.wgErrAt = 0 /\ rssIn.epErrAt = 0
    /\ Len(rssIn.entries) = 2 /\ Len(rssIn.endpoints) = 2
    /\ rssIn.entries[1].wg.Status = "DELETING"
    /\ rssIn.endpoints[1].EndpointStatus = "DELETING"
    /\ rssIn.endpoints[1].WorkgroupName = "w2"
    /\ rssRet.err = Nil
    /\ Len(rssRet.databases) = 2
    /\ rssRet.databases[1].Name = "w2"
    /\ rssRet.databases[2].Name = "e2"

\* the workgroups GetDatabases turns into records whose tag request failed
UntaggedEntries == {k \in EmittableEntries : rssIn.entries[k].tags.err # Nil}

\* C29: the failure of a tag request, access denied or any other, is no error
\* of GetDatabases: getRSSResourceTags answers with no tags, and the available
\* workgroup is returned as a database record without tags.
C29_TagFailureYieldsEmptyTags ==
    /\ \A a \in TagAnswers : a.err # Nil => getRSSResourceTags(a) = <<>>
    /\ (rssCalled /\ ~rssIn.clientErr /\ rssIn.wgErrAt = 0) =>
          /\ rssRet.err = Nil
          /\ \A k \in UntaggedEntries :
                /\ DatabasesOf("workgroup", rssIn.entries[k].wg.WorkgroupName) # {}
                /\ \A b \in DatabasesOf("workgroup", rssIn.entries[k].wg.WorkgroupName) :
                      rssRet.databases[b].Tags = <<>>

\* the tag request is refused for the first workgroup and fails otherwise for
\* the second: both are returned, without tags
C29_Witness ==
    /\ rssCalled /\ ~rssIn.clientErr /\ rssIn.wgErrAt = 0
    /\ UntaggedEntries = {1, 2}
    /\ rssIn.entries[1].tags.err.type = "AccessDenied"
    /\ rssIn.entries[2].tags.err.type = "Other"
    /\ rssRet.err = Nil
    /\ Len(rssRet.databases) >= 2
    /\ rssRet.databases[1].Name = "w1" /\ rssRet.databases[1].Tags = <<>>
    /\ rssRet.databases[2].Name = "w2" /\ rssRet.databases[2].Tags = <<>>

\* the names of the workgroups GetDatabases returned a record for
EmittedWorkgroups ==
    {rssRet.databases[b].Name :
        b \in {k \in 1..Len(rssRet.databases) : rssRet.databases[k].kind = "workgroup"}}

\* C31: GetDatabases returns the record of an endpoint only if it returns, in
\* the same call, the record of the workgroup the endpoint names (a workgroup
\* listed, available and converted); an endpoint of a workgroup that was
\* skipped is never returned; and the endpoint listing is called exactly when
\* at least one workgroup was turned into a record.
C31_EndpointOnlyWithEmittedWorkgroup ==
    (rssCalled /\ ~rssIn.clientErr /\ rssIn.wgErrAt = 0) =>
        /\ EmittedWorkgroups =
              {rssIn.entries[k].wg.WorkgroupName : k \in EmittableEntries}
        /\ \A b \in 1..Len(rssRet.databases) :
              rssRet.databases[b].kind = "vpc-endpoint" =>
                  rssRet.databases[b].Workgroup \in EmittedWorkgroups
        /\ \A j \in 1..Len(rssIn.endpoints) :
              rssIn.endpoints[j].WorkgroupName \notin EmittedWorkgroups =>
                  DatabasesOf("vpc-endpoint", rssIn.endpoints[j].EndpointName) = {}
        /\ rssRet.listedEndpoints = (EmittedWorkgroups # {})

\* the first workgroup is available but cannot be converted, and has an
\* available endpoint; the second workgroup and its endpoint are returned,
\* the endpoint of the first is not
C31_Witness ==
    /\ rssCalled /\ ~rssIn.clientErr /\ rssIn.wgErrAt = 0 /\ rssIn.epErrAt = 0
    /\ Len(rssIn.entries) = 2 /\ Len(rssIn.endpoints) = 2
    /\ rssIn.entries[1].wg.Status = "AVAILABLE" /\ rssIn.entries[1].wg.Address = ""
    /\ rssIn.endpoints[1].WorkgroupName = "w1"
    /\ rssIn.endpoints[1].EndpointStatus = "AVAILABLE" /\ rssIn.endpoints[1].Address # ""
    /\ rssIn.endpoints[2].WorkgroupName = "w2"
    /\ rssRet.listedEndpoints
    /\ Len(rssRet.databases) = 2
    /\ rssRet.databases[1].Name = "w2"
    /\ rssRet.databases[2].Name = "e2"

\* workgroups are listed, none is turned into a record, and an available
\* endpoint exists: the endpoint listing is not called
C31_WitnessNoWorkgroup ==
    /\ rssCalled /\ ~rssIn.clientErr /\ rssIn.wgErrAt = 0
    /\ Len(rssIn.entries) = 2 /\ EmittableEntries = {}
    /\ Len(rssIn.endpoints) >= 1
    /\ ~rssRet.listedEndpoints
    /\ rssRet.databases = <<>>

-----------------------------------------------------------------------------
(* Claims about the Modal component *)

EscapePressed == event # Nil /\ event.type = "keydown" /\ event.key = "Escape"

BackdropClicked == event # Nil /\ event.type = "click"

\* C21: with disableEscapeKeyDown set, an Escape keydown invokes no callback at
\* all (neither onEscapeKeyDown nor onClose); with it unset, an Escape keydown
\* that is not default-prevented, while the modal is open, invokes
\* onEscapeKeyDown and then onClose with the reason 'escapeKeyDown' (each when
\* provided).
C21_DisabledEscapeFiresNothing ==
    EscapePressed =>
        IF props.disableEscapeKeyDown
        THEN calls = <<>>
        ELSE (~event.defaultPrevented /\ mounted /\ props.open) =>
                calls = (IF props.onEscapeKeyDown
                         THEN <<Invoked("onEscapeKeyDown", "")>> ELSE <<>>)
                        \o (IF props.onClose
                            THEN <<Invoked("onClose", "escapeKeyDown")>> ELSE <<>>)

\* C22: with disableBackdropClick set, a click on the backdrop invokes no
\* callback at all (neither onBackdropClick nor onClose); and a click whose
\* target is not the backdrop element itself never invokes either callback.
C22_DisabledBackdropClickFiresNothing ==
    BackdropClicked =>
        /\ props.disableBackdropClick => calls = <<>>
        /\ ~event.targetIsCurrentTarget => calls = <<>>

\* C33: whatever the sequence of mounts, changes of the props and unmounts,
\* handleDocumentKeyDown is a keydown listener of the document exactly when
\* the Modal is mounted with open = true: a step that closes or unmounts it
\* removes the listener, and an Escape pressed while the Modal is closed or
\* unmounted invokes no callback.
C33_ListenerIffMountedOpen ==
    /\ props # Nil => (listening = (mounted /\ props.open))
    /\ (EscapePressed /\ ~(mounted /\ props.open)) => calls = <<>>

\* Escape is pressed on a mounted, closed Modal that has both callbacks and
\* does not disable the key: nothing is invoked
C33_Witness ==
    /\ EscapePressed /\ ~event.defaultPrevented
    /\ mounted /\ ~props.open
    /\ props.onEscapeKeyDown /\ props.onClose /\ ~props.disableEscapeKeyDown
    /\ ~listening
    /\ calls = <<>>

====
